---- MODULE Spec2Model ----
(***************************************************************************)
(* Model of the screenshotter request-safety layer:                        *)
(*   security.js  - validateUrl / validateRedirect, checkRateLimit,        *)
(*                  Semaphore                                              *)
(*   server.js    - the POST /api/screenshot handler                       *)
(*   capture.js   - the renderer lifecycle, capture() and its redirect hook  *)
(* Each component has its own specification (SpecRate, SpecSem, LiveSem,   *)
(* SpecApp, SpecReq, SpecVal, SpecProbe, SpecCap, SpecLife, SpecShot); all *)
(* of them share the variables below and leave those of the other          *)
(* components unchanged.                                                   *)
(***************************************************************************)
EXTENDS Integers, Sequences, FiniteSets, TLC

VARIABLES
  now,            \* Date.now(), in milliseconds
  requestCounts,  \* security.js:119  Map ip -> { count, resetAt }
  rl,             \* observation of the last checkRateLimit call and its result
  win,            \* reference fixed window of each client: its opening call and call index
  allowedLog,     \* per client, the times of its last RATE_LIMIT allowed calls
  shadow,         \* the rate limiter run on the same calls without any sweep, a record of
                  \*   counts  its map
                  \*   swept   the clients whose entry a sweep of requestCounts removed
  sem,            \* the Semaphore of server.js:10, a record of
                  \*   current   security.js:158
                  \*   queue     security.js:159, the callers of the queued entries
                  \*   wstate    per caller, the state of the promise of its last acquire()
                  \*   timer     per caller, whether the setTimeout of its entry is pending
                  \*   deadline  per caller, Date.now() at its acquire() + timeoutMs (-1: not
                  \*             queued)
                  \*   grants    per caller, how often its last acquire() was granted
                  \*   rejects   per caller, how often its last acquire() was rejected
  valIn,          \* validateUrl: the parsed input and what the resolvers answer for it
  valOut,         \* validateUrl: its outcome for valIn, or NotRun
  valPc,          \* validateUrl: "parse", "dns" (awaiting the resolvers) or "done"
  pc,             \* per request handler, where it is suspended: "idle" (no request),
                  \*   "validating" (server.js:51), "acquiring" (server.js:90: the
                  \*   promise of acquire() is awaited, settled at the call or not),
                  \*   "capturing" (server.js:97)
  resp,           \* the last response sent: its status and retryAfter
  cap,            \* one call of capture(), a record of
                  \*   pc       "start" (capture.js:84, the hook is installed), "goto"
                  \*            (capture.js:95 is awaited), "loaded" (page.goto resolved),
                  \*            "fonts", "selector", "settled" (the wait of capture.js:101,
                  \*            109, 139 is over), "shot" (capture.js:228 returns), "failed"
                  \*            (the try block threw)
                  \*   chain    the redirected navigation requests the 'request' listener
                  \*            took up, each with the URL it leads to, whether
                  \*            page.goto was awaited then and whether the listener has
                  \*            finished
                  \*   request  the navigation request of page.goto, at its last hop:
                  \*            "none", "inflight", "aborted" or "finished"
                  \*   page     "open", or "closed" (capture.js:230 ran)
                  \*   error    the code of what the try block threw: "" (nothing),
                  \*            "TOO_LARGE" or "error" (any other rejection)
                  \*   waitForSelector   opts.waitForSelector ("": none requested)
                  \*   waits    the soft waits made, in order, each with its name and
                  \*            whether it succeeded before its timeout
                  \*   selectorTimedOut  the local of capture.js:106
  life,           \* the renderer singleton of capture.js:10-12, a record of
                  \*   browser          the instance referenced (0: null)
                  \*   screenshotCount  capture.js:11
                  \*   launchTime       capture.js:12
                  \*   inst             per renderer instance "unborn", "live" or "closed"
                  \*                    (browser.close() was called, or the process died)
                  \*   succeeded        per instance, the captures that succeeded on it
  job,            \* per concurrent call of capture(), a record of
                  \*   pc      "idle", "closing" (capture.js:16 is awaited), "launching"
                  \*           (capture.js:18), "launched" (launchBrowser() has set the
                  \*           singleton, getBrowser() has not resumed yet),
                  \*           "newContext" (capture.js:68), "newPage"
                  \*           (capture.js:75), "body" (capture.js:77-228), "finally"
                  \*           (capture.js:230 is awaited), "closeContext" (capture.js:231
                  \*           is awaited), "done" (returned or threw)
                  \*   b       the instance getBrowser() returned (0: none yet)
                  \*   ctx     its browsing context: "none", "open" or "closed"
                  \*   page    its page: "none", "open" or "closed"
                  \*   result  "none", "ok" (a result is returned) or "error" (it throws)
                  \*   closed  the live instance its launchBrowser() closed (0: none)
  shot,           \* the data of one request that reaches capture() (pc "none" alone
                  \* where none is followed), a record of
                  \*   pc       "request", "aborted" (server.js:57-86 threw), "capture"
                  \*            (server.js:97 calls capture), "measured"
                  \*            (capture.js:158), "ready" (capture.js:207), "returned" or
                  \*            "threw" (capture.js:213-228), "responded" (server.js:118-127)
                  \*   body     req.body: deviceScaleFactor, fullPage, viewport, waitTime
                  \*   doc      what the renderer reports: the height at the first and at
                  \*            the second measurement, the byte length of the screenshot
                  \*   opts     the options of server.js:57-86
                  \*   dpr, truncated, captureHeight, remeasured   locals of capture()
                  \*   out      what capture() returns or throws
                  \*   res      the response of the handler
  req,            \* one request to POST /api/screenshot followed through the handler
                  \* (pc "none" alone where none is followed), a record of
                  \*   pc         "none", "arrived", "validating" (server.js:51),
                  \*              "acquiring" (server.js:90), "capturing" (server.js:97), "done"
                  \*              (a response was sent), "aborted" (server.js:57-86 threw)
                  \*   url        req.body.url: its type and whether it is truthy
                  \*   body       the optional parameters of req.body
                  \*   target     what validateUrl finds for the url
                  \*   rate       "none", "allowed" or "denied": what checkRateLimit said
                  \*   valid      "none", "ok" or "failed": how validateUrl settled
                  \*   slot       "none", "granted" or "timeout": how acquire settled
                  \*   outcome    "none" or how capture settled
                  \*   gates      the calls made for the request, in order: "rate",
                  \*              "validate", "acquire", "capture", "release"
                  \*   responses  the responses sent, in order
                  \*   others     arrivals of another request still to come
  probe           \* one call of isBlockedIP(ip), a record of
                  \*   pc       "idle", "called" or "returned"
                  \*   family   4 or 6: the kind of address the text denotes
                  \*   text     the argument
                  \*   num      the address the text denotes: 4 octets or 8 groups
                  \*   blocked  the value returned

rateVars == <<requestCounts, rl, win, allowedLog, shadow>>

semVars == <<sem>>

valVars == <<valIn, valOut, valPc>>

appVars == <<pc, resp>>

capVars == <<cap>>

lifeVars == <<life, job>>

shotVars == <<shot>>

probeVars == <<probe>>

reqVars == <<req>>

vars == <<now, requestCounts, rl, win, allowedLog, shadow, sem, valIn, valOut, valPc, pc, resp, cap,
         life, job, shot, probe, req>>

----------------------------------------------------------------------------
(* Rate limiter: security.js:117-151 *)

RATE_LIMIT == 5

RATE_WINDOW_MS == 60000

MS_PER_SECOND == 1000

\* Bounds of the rate-limiter model.
MaxBase == 2     \* time points reach MaxBase half-windows
MaxSkew == 1     \* ... each with offsets 0..MaxSkew milliseconds
MaxCount == 7    \* checkRateLimit is not called once a window counted this many calls

IPs == {"clientA", "clientB"}

\* The instants at which the model observes the clock.
TimePoints == { (b * RATE_WINDOW_MS) \div 2 + e : b \in 0..MaxBase, e \in 0..MaxSkew }

\* Math.ceil(n / d) for d > 0 (\div rounds towards minus infinity).
Ceil(n, d) == -((-n) \div d)

\* Map.set(k, v)
MapSet(m, k, v) == [x \in (DOMAIN m) \cup {k} |-> IF x = k THEN v ELSE m[x]]

\* Map.delete over every key in ks
MapDelete(m, ks) == [x \in (DOMAIN m) \ ks |-> m[x]]

\* Mutant of WindowExpired: the window is reset one window too late.
WindowExpiredLate(t, entry) == t > entry.resetAt + RATE_WINDOW_MS

\* security.js:138  now > entry.resetAt
WindowExpired(t, entry) == t > entry.resetAt

\* security.js:139  { count: 0, resetAt: now + RATE_WINDOW_MS }
FreshEntry(t) == [count |-> 0, resetAt |-> t + RATE_WINDOW_MS]

\* Mutant of OverLimit: the comparison admits one call too many.
OverLimitLoose(c) == c > RATE_LIMIT + 1

\* Mutant of OverLimit: the comparison admits one call too few.
OverLimitStrict(c) == c >= RATE_LIMIT

\* security.js:145  entry.count > RATE_LIMIT
OverLimit(c) == c > RATE_LIMIT

\* security.js:146  Math.ceil((entry.resetAt - now) / 1000)
RetryAfterOf(entry, t) == Ceil(entry.resetAt - t, MS_PER_SECOND)

\* Mutant of checkRateLimit: a denied call restarts the caller's window.
checkRateLimitPenalty(counts, ip, t) ==
  LET fresh == (ip \notin DOMAIN counts) \/ WindowExpired(t, counts[ip])
      base  == IF fresh THEN FreshEntry(t) ELSE counts[ip]
      entry == [base EXCEPT !.count = @ + 1,
                            !.resetAt = IF OverLimit(base.count + 1)
                                          THEN t + RATE_WINDOW_MS ELSE @]
  IN  [ counts     |-> MapSet(counts, ip, entry),
        allowed    |-> ~OverLimit(entry.count),
        retryAfter |-> IF OverLimit(entry.count) THEN RetryAfterOf(entry, t) ELSE 0 ]

\* security.js:134-151: the result and the map after checkRateLimit(ip) at time t.
checkRateLimit(counts, ip, t) ==
  LET fresh == (ip \notin DOMAIN counts) \/ WindowExpired(t, counts[ip])
      base  == IF fresh THEN FreshEntry(t) ELSE counts[ip]
      entry == [base EXCEPT !.count = @ + 1]
  IN  [ counts     |-> MapSet(counts, ip, entry),
        allowed    |-> ~OverLimit(entry.count),
        retryAfter |-> IF OverLimit(entry.count) THEN RetryAfterOf(entry, t) ELSE 0 ]

\* Mutant of Cleanup: an entry is removed at its expiry instant already.
CleanupEarly(counts, t) ==
  MapDelete(counts, { ip \in DOMAIN counts : t >= counts[ip].resetAt })

\* security.js:124-129: the periodic cleanup of stale entries at time t.
Cleanup(counts, t) ==
  MapDelete(counts, { ip \in DOMAIN counts : t > counts[ip].resetAt })

NoCall == [ip |-> "none", at |-> -1, had |-> FALSE, pre |-> FreshEntry(-1),
           post |-> FreshEntry(-1), allowed |-> TRUE, retryAfter |-> 0,
           widx |-> 0, wstart |-> -1, t5 |-> -1]

NoWin == [start |-> -1, idx |-> 0]

\* Reference: the fixed window a call at time t falls into, by the spec's words
\* (a window lasts from its opening call until now passes opening + 60 s).
RefWindow(w, t) ==
  IF w.idx = 0 \/ t > w.start + RATE_WINDOW_MS
    THEN [start |-> t, idx |-> 1]
    ELSE [w EXCEPT !.idx = @ + 1]

\* The times of the last RATE_LIMIT allowed calls, after one more at time t.
LogAllowed(log, t) ==
  IF Len(log) < RATE_LIMIT THEN Append(log, t) ELSE Append(Tail(log), t)

NoShadow == [counts |-> << >>, swept |-> {}]

InitRateVars ==
  /\ requestCounts = << >>
  /\ shadow = NoShadow
  /\ rl = NoCall
  /\ win = [ip \in IPs |-> NoWin]
  /\ allowedLog = [ip \in IPs |-> << >>]

----------------------------------------------------------------------------
(* Target validator: security.js:1-115.  A string is the sequence of its
   characters, so that startsWith, split, slice and toLowerCase are computed. *)

\* security.js:4
ALLOWED_SCHEMES == {"http:", "https:"}

\* String.prototype.startsWith
StartsWith(str, prefix) ==
  Len(str) >= Len(prefix) /\ SubSeq(str, 1, Len(prefix)) = prefix

\* String.prototype.includes, for one character
Includes(str, ch) == \E i \in 1..Len(str) : str[i] = ch

\* String.prototype.slice(n)
Slice(str, n) == SubSeq(str, n + 1, Len(str))

UpperCase == <<"A", "B", "C", "D", "E", "F">>
LowerCase == <<"a", "b", "c", "d", "e", "f">>

\* String.prototype.toLowerCase (addresses hold no letters beyond the hex digits)
ToLowerCase(str) ==
  [i \in 1..Len(str) |->
     IF \E k \in 1..Len(UpperCase) : UpperCase[k] = str[i]
       THEN LowerCase[CHOOSE k \in 1..Len(UpperCase) : UpperCase[k] = str[i]]
       ELSE str[i]]

\* str.split('.')[1]: the text between the first dot and the next one (or the
\* end); str holds at least one dot.
SplitDotSecond(str) ==
  LET dots   == {i \in 1..Len(str) : str[i] = "."}
      first  == CHOOSE i \in dots : \A j \in dots : i <= j
      later  == {i \in dots : i > first}
      second == IF later = {} THEN Len(str) + 1
                ELSE CHOOSE i \in later : \A j \in later : i <= j
  IN  SubSeq(str, first + 1, second - 1)

Digits == <<"0", "1", "2", "3", "4", "5", "6", "7", "8", "9">>

IsDigit(ch) == \E k \in 1..Len(Digits) : Digits[k] = ch

DigitValue(ch) == (CHOOSE k \in 1..Len(Digits) : Digits[k] = ch) - 1

\* The value of a string of decimal digits. The model holds integers below 2^31:
\* a string of a greater value gives 2^31 - 1, which stands for every number
\* from 2^31 on (TooBig tells the two apart).
RECURSIVE DecimalValue(_)
DecimalValue(ds) ==
  IF Len(ds) = 0 THEN 0
  ELSE LET acc == DecimalValue(SubSeq(ds, 1, Len(ds) - 1))
           d   == DigitValue(ds[Len(ds)])
       IN  IF acc > 214748364 \/ (acc = 214748364 /\ d > 7)
             THEN 2147483647
             ELSE 10 * acc + d

\* The value of the string of decimal digits is 2^31 or more.
RECURSIVE TooBig(_)
TooBig(ds) ==
  /\ Len(ds) > 0
  /\ LET acc == DecimalValue(SubSeq(ds, 1, Len(ds) - 1))
         d   == DigitValue(ds[Len(ds)])
     IN  \/ TooBig(SubSeq(ds, 1, Len(ds) - 1))
         \/ acc > 214748364
         \/ acc = 214748364 /\ d > 7

\* The white space parseInt skips (StrWhiteSpaceChar): space, TAB, LF, CR, FF,
\* VT, NBSP, BOM and U+1680, which are those a string of this module can hold
\* (U+2000 to U+200A, U+2028, U+2029, U+202F, U+205F and U+3000 it cannot).
WhiteSpace == {" ", "\t", "\n", "\r", "\f", "", " ", "﻿", " "}

\* TrimString(str, start): str without its leading white space
RECURSIVE TrimStart(_)
TrimStart(str) ==
  IF Len(str) > 0 /\ str[1] \in WhiteSpace THEN TrimStart(Tail(str)) ELSE str

\* parseInt(str, 10): leading white space is skipped; the value of the longest
\* prefix of decimal digits, after an optional sign; NaN when there is none.
\* big: the number is 2^31 or more in magnitude (value is then the bound, with
\* the sign); negZero: the number is -0, which value gives as 0.
ParseInt(str) ==
  LET text   == TrimStart(str)
      neg    == Len(text) > 0 /\ text[1] = "-"
      body   == IF Len(text) > 0 /\ text[1] \in {"-", "+"} THEN Tail(text) ELSE text
      stops  == {i \in 1..Len(body) : ~IsDigit(body[i])}
      n      == IF stops = {} THEN Len(body)
                ELSE (CHOOSE i \in stops : \A j \in stops : i <= j) - 1
      v      == DecimalValue(SubSeq(body, 1, n))
  IN  [nan |-> n = 0, value |-> IF neg THEN -v ELSE v,
       big |-> TooBig(SubSeq(body, 1, n)), negZero |-> n > 0 /\ neg /\ v = 0]

\* security.js:15-28
isBlockedIPv4(ip) ==
  \/ ip = <<"0", ".", "0", ".", "0", ".", "0">>
  \/ ip = <<"1", "6", "9", ".", "2", "5", "4", ".", "1", "6", "9", ".", "2", "5", "4">>
  \/ StartsWith(ip, <<"1", "2", "7", ".">>)
  \/ StartsWith(ip, <<"1", "0", ".">>)
  \/ StartsWith(ip, <<"1", "9", "2", ".", "1", "6", "8", ".">>)
  \/ /\ StartsWith(ip, <<"1", "7", "2", ".">>)
     /\ LET second == ParseInt(SplitDotSecond(ip))
        IN  ~second.nan /\ second.value >= 16 /\ second.value <= 31
  \/ StartsWith(ip, <<"1", "6", "9", ".", "2", "5", "4", ".">>)

\* security.js:30-43
isBlockedIPv6(ip) ==
  LET normalized == ToLowerCase(ip)
  IN  \/ normalized = <<":", ":", "1">>
      \/ StartsWith(normalized, <<"f", "c">>)
      \/ StartsWith(normalized, <<"f", "d">>)
      \/ StartsWith(normalized, <<"f", "e", "8", "0">>)
      \/ /\ StartsWith(normalized, <<":", ":", "f", "f", "f", "f", ":">>)
         /\ isBlockedIPv4(Slice(normalized, 7))

\* security.js:45-47
isBlockedIP(ip) == IF Includes(ip, ":") THEN isBlockedIPv6(ip) ELSE isBlockedIPv4(ip)

\* security.js:89  hostname.replace(/^\[|\]$/g, '')
StripBrackets(h) ==
  LET a == IF Len(h) > 0 /\ h[1] = "[" THEN Tail(h) ELSE h
  IN  IF Len(a) > 0 /\ a[Len(a)] = "]" THEN SubSeq(a, 1, Len(a) - 1) ELSE a

\* security.js:75-79  the values of the fulfilled results, in order
Fulfilled(res) == IF res.status = "fulfilled" THEN res.value ELSE << >>

\* security.js:78  lookup.value.map((r) => r.address)
MapAddress(recs) == [i \in 1..Len(recs) |-> recs[i].address]

\* security.js:85  [...new Set(addresses)]: first occurrences, in order
RECURSIVE Dedupe(_)
Dedupe(xs) ==
  IF Len(xs) = 0 THEN << >>
  ELSE LET front == Dedupe(SubSeq(xs, 1, Len(xs) - 1))
           last  == xs[Len(xs)]
       IN  IF \E i \in 1..Len(front) : front[i] = last THEN front ELSE Append(front, last)

\* security.js:94-98  the loop over the addresses
AnyBlocked(addresses) == \E i \in 1..Len(addresses) : isBlockedIP(addresses[i])

ERR_FORMAT == "Invalid URL format"
\* security.js:61  the message names the protocol of the parsed URL
ERR_SCHEME(protocol) ==
  "Scheme \"" \o protocol \o "\" is not allowed. Only http and https are permitted."
ERR_PRIVATE == "Access to private/internal network addresses is not allowed"

Throw(msg) == [ok |-> FALSE, error |-> msg]

\* security.js:53-62  what validateUrl throws before it resolves anything ("": nothing)
EarlyError(inp) ==
  IF ~inp.parses THEN ERR_FORMAT
  ELSE IF inp.protocol \notin ALLOWED_SCHEMES THEN ERR_SCHEME(inp.protocol)
  ELSE ""

\* security.js:52-102  validateUrl(input).  inp is what `new URL(input)` gives
\* (parses, protocol, hostname, href) and what the three resolvers settle with.
validateUrl(inp) ==
  IF EarlyError(inp) # "" THEN Throw(EarlyError(inp))
  ELSE
    LET addresses == Dedupe(Fulfilled(inp.v4) \o Fulfilled(inp.v6)
                              \o MapAddress(Fulfilled(inp.lookup)))
    IN  IF Len(addresses) = 0
          THEN IF isBlockedIP(StripBrackets(inp.hostname))
                 THEN Throw(ERR_PRIVATE)
                 ELSE [ok |-> TRUE, url |-> inp.href, hostname |-> inp.hostname]
          ELSE IF AnyBlocked(addresses)
                 THEN Throw(ERR_PRIVATE)
                 ELSE [ok |-> TRUE, url |-> inp.href, hostname |-> inp.hostname]

\* security.js:108-115
validateRedirect(inp) == validateUrl(inp).ok

\* Bound of the validator model: answers per resolver.
MaxAnswers == 2

\* Addresses the resolvers answer with.
PUBLIC_V4 == <<"8", ".", "8", ".", "8", ".", "8">>
PRIVATE_V4 == <<"1", "7", "2", ".", "2", "0", ".", "0", ".", "1">>
PUBLIC_V6 == <<"2", "6", "0", "6", ":", ":", "1">>
PRIVATE_V6 == <<"F", "D", "0", "0", ":", ":", "1">>
MAPPED_V6 == <<":", ":", "f", "f", "f", "f", ":", "1", "0", ".", "0", ".", "0", ".", "1">>
LINKLOCAL_V6 == <<"f", "e", "9", "0", ":", ":", "1">>

\* Hostnames of the requested URLs: a name, an IPv4 literal, an IPv6 literal.
HOST_NAME == <<"a", ".", "i", "o">>
HOST_V4 == <<"1", "6", "9", ".", "2", "5", "4", ".", "1", "6", "9", ".", "2", "5", "4">>
HOST_V6 == <<"[", ":", ":", "1", "]">>

\* The sequences of 1..MaxAnswers elements of pool.
Answers(pool) == UNION { [1..n -> pool] : n \in 1..MaxAnswers }

\* What a resolver promise settles with.
Settled(pool) ==
  {[status |-> "rejected", value |-> << >>]}
    \cup {[status |-> "fulfilled", value |-> v] : v \in Answers(pool)}

ParsedUrls ==
  {[parses |-> FALSE, protocol |-> "", hostname |-> << >>, href |-> ""]}
    \cup {[parses |-> TRUE, protocol |-> p, hostname |-> h, href |-> "href"] :
            p \in {"http:", "https:", "ftp:"}, h \in {HOST_NAME, HOST_V4, HOST_V6}}

\* The inputs of validateUrl: a parsed URL and the three resolver results.
ValInputs ==
  { [parses |-> u.parses, protocol |-> u.protocol, hostname |-> u.hostname,
     href |-> u.href, v4 |-> a, v6 |-> b, lookup |-> l] :
      u \in ParsedUrls,
      a \in Settled({PUBLIC_V4, PRIVATE_V4}),
      b \in Settled({PUBLIC_V6, PRIVATE_V6, LINKLOCAL_V6}),
      l \in Settled({[address |-> PUBLIC_V4, family |-> 4],
                     [address |-> PRIVATE_V4, family |-> 4],
                     [address |-> MAPPED_V6, family |-> 6]}) }

NotRun == [ok |-> FALSE, error |-> "not run"]

\* An input for which nothing resolves and nothing parses.
NoInput ==
  [parses |-> FALSE, protocol |-> "", hostname |-> << >>, href |-> "",
   v4 |-> [status |-> "rejected", value |-> << >>],
   v6 |-> [status |-> "rejected", value |-> << >>],
   lookup |-> [status |-> "rejected", value |-> << >>]]

InitValVars ==
  /\ valIn = NoInput
  /\ valOut = NotRun
  /\ valPc = "parse"

----------------------------------------------------------------------------
(* Concurrency semaphore: security.js:153-189 *)

\* server.js:10  new Semaphore(5)
max == 5

\* Bounds of the semaphore model.
NumClients == 6   \* request handlers that can be in flight at once
NumWaiters == 3   \* callers of acquire() in the specification of the class alone
LiveWaiters == 2  \* callers of acquire() in the specification with timers that fire
MaxNow == 4       \* the clock of those specifications runs from 0 to MaxNow ms
MaxTimeout == 2   \* acquire(timeoutMs) is called with timeoutMs in 1..MaxTimeout

Clients == 1..NumClients

\* Array.prototype.indexOf / splice(idx, 1): q without its entry of caller c.
Without(q, c) == SelectSeq(q, LAMBDA x : x # c)

InQueue(q, c) == \E i \in 1..Len(q) : q[i] = c

\* Mutant of CanAcquire: off by one.
CanAcquireLoose(n) == n <= max

\* security.js:163  this.current < this.max
CanAcquire(n) == n < max

\* Mutant of Decrement: no floor at zero.
DecrementUnchecked(n) == n - 1

\* security.js:186  Math.max(0, this.current - 1)
Decrement(n) == IF n - 1 > 0 THEN n - 1 ELSE 0

\* A promise settles once: later resolve/reject calls do not change its state.
Settle(st, to) == IF st = "waiting" THEN to ELSE st

\* Mutant of acquire: the queued entry gets no timer.
acquireNoTimer(sm, c, timeoutMs, t) ==
  IF CanAcquire(sm.current)
    THEN [sm EXCEPT !.current = @ + 1,
                    !.wstate[c] = "granted",
                    !.grants[c] = 1,
                    !.rejects[c] = 0,
                    !.deadline[c] = -1]
    ELSE [sm EXCEPT !.queue = Append(@, c),
                    !.timer[c] = FALSE,
                    !.deadline[c] = t + timeoutMs,
                    !.wstate[c] = "waiting",
                    !.grants[c] = 0,
                    !.rejects[c] = 0]

\* Mutant of acquire: an immediate grant is not counted.
acquireUncounted(sm, c, timeoutMs, t) ==
  IF CanAcquire(sm.current)
    THEN [sm EXCEPT !.wstate[c] = "granted",
                    !.grants[c] = 1,
                    !.rejects[c] = 0,
                    !.deadline[c] = -1]
    ELSE [sm EXCEPT !.queue = Append(@, c),
                    !.timer[c] = TRUE,
                    !.deadline[c] = t + timeoutMs,
                    !.wstate[c] = "waiting",
                    !.grants[c] = 0,
                    !.rejects[c] = 0]

\* security.js:162-178  acquire(timeoutMs), called by c at time t: the semaphore
\* when the call returns its promise.
acquire(sm, c, timeoutMs, t) ==
  IF CanAcquire(sm.current)
    THEN [sm EXCEPT !.current = @ + 1,
                    !.wstate[c] = "granted",
                    !.grants[c] = 1,
                    !.rejects[c] = 0,
                    !.deadline[c] = -1]
    ELSE [sm EXCEPT !.queue = Append(@, c),
                    !.timer[c] = TRUE,
                    !.deadline[c] = t + timeoutMs,
                    !.wstate[c] = "waiting",
                    !.grants[c] = 0,
                    !.rejects[c] = 0]

\* Mutant of release: the handoff forgets clearTimeout.
releaseKeepTimer(sm) ==
  IF Len(sm.queue) > 0
    THEN [sm EXCEPT !.queue = Tail(@),
                    !.grants[Head(sm.queue)] = @ + 1,
                    !.wstate[Head(sm.queue)] = Settle(@, "granted")]
    ELSE [sm EXCEPT !.current = Decrement(@)]

\* Mutant of release: the handoff takes the newest entry (pop instead of shift).
releaseNewest(sm) ==
  IF Len(sm.queue) > 0
    THEN [sm EXCEPT !.queue = SubSeq(@, 1, Len(@) - 1),
                    !.timer[sm.queue[Len(sm.queue)]] = FALSE,
                    !.grants[sm.queue[Len(sm.queue)]] = @ + 1,
                    !.wstate[sm.queue[Len(sm.queue)]] = Settle(@, "granted")]
    ELSE [sm EXCEPT !.current = Decrement(@)]

\* Mutant of release: the handoff also gives the slot back.
releaseHandoffDecrements(sm) ==
  IF Len(sm.queue) > 0
    THEN [sm EXCEPT !.queue = Tail(@),
                    !.current = Decrement(@),
                    !.timer[Head(sm.queue)] = FALSE,
                    !.grants[Head(sm.queue)] = @ + 1,
                    !.wstate[Head(sm.queue)] = Settle(@, "granted")]
    ELSE [sm EXCEPT !.current = Decrement(@)]

\* security.js:180-188  release()
release(sm) ==
  IF Len(sm.queue) > 0
    THEN [sm EXCEPT !.queue = Tail(@),
                    !.timer[Head(sm.queue)] = FALSE,
                    !.grants[Head(sm.queue)] = @ + 1,
                    !.wstate[Head(sm.queue)] = Settle(@, "granted")]
    ELSE [sm EXCEPT !.current = Decrement(@)]

\* Mutant of timeout: the rejected waiter also gives a slot back.
timeoutFreesSlot(sm, c) ==
  [sm EXCEPT !.timer[c] = FALSE,
             !.queue = Without(@, c),
             !.current = Decrement(@),
             !.rejects[c] = @ + 1,
             !.wstate[c] = Settle(@, "rejected")]

\* security.js:169-173  the setTimeout callback of c's queue entry
timeout(sm, c) ==
  [sm EXCEPT !.timer[c] = FALSE,
             !.queue = Without(@, c),
             !.rejects[c] = @ + 1,
             !.wstate[c] = Settle(@, "rejected")]

\* security.js:169-173  setTimeout measures its delay on the clock of the event
\* loop, which is read once per loop turn and in whole milliseconds: by
\* Date.now() a callback runs up to TimerSlack ms before deadline = (Date.now() at
\* the call of acquire) + timeoutMs, and any time after it.
TimerSlack == 1

\* The timer of c's queue entry is pending and the runtime may run its callback
\* when Date.now() reads t.
TimerDue(sm, c, t) == sm.timer[c] /\ t >= sm.deadline[c] - TimerSlack

\* security.js:156-160  constructor(max)
NewSemaphore ==
  [ current  |-> 0,
    queue    |-> << >>,
    wstate   |-> [c \in Clients |-> "idle"],
    timer    |-> [c \in Clients |-> FALSE],
    deadline |-> [c \in Clients |-> -1],
    grants   |-> [c \in Clients |-> 0],
    rejects  |-> [c \in Clients |-> 0] ]

InitSemVars == sem = NewSemaphore

\* The promise of c's acquire() is no longer referenced once its handler resumed.
Dropped(sm, c) ==
  [sm EXCEPT !.wstate[c] = "idle", !.grants[c] = 0, !.rejects[c] = 0,
             !.deadline[c] = -1]

NoResponse == [status |-> 0, retryAfter |-> 0]

InitAppVars ==
  /\ pc = [c \in Clients |-> "idle"]
  /\ resp = NoResponse

\* capture.js:75-92  the page is open and the 'request' listener is registered.
NewCapture ==
  [pc |-> "start", chain |-> << >>, request |-> "none", waitForSelector |-> "",
   waits |-> << >>, selectorTimedOut |-> FALSE, page |-> "open", error |-> ""]

InitCapVars == cap = NewCapture

----------------------------------------------------------------------------
(* Renderer lifecycle: capture.js:4-38, and the contexts and pages of
   concurrent capture() calls: capture.js:66-77 and 223-232 *)

RESTART_INTERVAL == 100
RESTART_TIME == 3600000

\* Bound of the lifecycle model.
NumJobs == 2        \* calls of capture(), concurrent or one after the other

Jobs == 1..NumJobs

\* The renderer instances: the one of initBrowser() and one per call at most.
Instances == 1..(NumJobs + 1)

\* browser.isConnected()
IsConnected(l) == l.inst[l.browser] = "live"

\* Mutant of needsRestart: the count threshold is off by one.
needsRestartLate(l, t) ==
  \/ l.browser = 0
  \/ ~IsConnected(l)
  \/ l.screenshotCount > RESTART_INTERVAL
  \/ (t - l.launchTime) > RESTART_TIME

\* capture.js:31-34
needsRestart(l, t) ==
  \/ l.browser = 0
  \/ ~IsConnected(l)
  \/ l.screenshotCount >= RESTART_INTERVAL
  \/ (t - l.launchTime) > RESTART_TIME

\* The instance the next chromium.launch() creates (0: none left in the model).
NextInstance(l) ==
  IF \E i \in Instances : l.inst[i] = "unborn"
    THEN CHOOSE i \in Instances :
           l.inst[i] = "unborn" /\ \A k \in Instances : l.inst[k] = "unborn" => i <= k
    ELSE 0

\* capture.js:18-26  chromium.launch() resolved with instance i at time t.
Launched(l, i, t) ==
  [l EXCEPT !.browser = i, !.inst[i] = "live", !.screenshotCount = 0, !.launchTime = t]

\* capture.js:223  screenshotCount++, after a capture on instance i succeeded.
Counted(l, i) ==
  [l EXCEPT !.screenshotCount = @ + 1, !.succeeded[i] = @ + 1]

NoJob ==
  [pc |-> "idle", b |-> 0, ctx |-> "none", page |-> "none", result |-> "none",
   closed |-> 0]

\* server.js:135  initBrowser() has launched instance 1 before the server
\* listens; n captures have succeeded on it since and none is in progress.
StartedLife(n) ==
  [ browser |-> 1, screenshotCount |-> n, launchTime |-> 0,
    inst |-> [i \in Instances |-> IF i = 1 THEN "live" ELSE "unborn"],
    succeeded |-> [i \in Instances |-> IF i = 1 THEN n ELSE 0] ]

InitLifeVars ==
  /\ life = StartedLife(0)
  /\ job = [j \in Jobs |-> NoJob]

----------------------------------------------------------------------------
(* The data path of one capture: the options of server.js:56-86, the scale,
   height and size computations of capture.js:54-66 and 148-228, and the
   response of server.js:95-127 *)

MAX_HEIGHT == 15000
MAX_OUTPUT_SIZE == 50 * 1024 * 1024

\* A value that is undefined (v stands in its place), and one that is defined.
None(v) == [def |-> FALSE, value |-> v]

Some(v) == [def |-> TRUE, value |-> v]

NoDimensions == [width |-> 0, height |-> 0]

Min(a, b) == IF a < b THEN a ELSE b

Max(a, b) == IF a > b THEN a ELSE b

\* A value of the request body that has no primitive value, such as
\* {"toString": null} or {"toString": 1, "valueOf": 1}: parseInt converts its
\* argument to a string first, and this conversion throws TypeError for it.
NoPrimitive == <<"{\"toString\":null}">>

\* server.js:60, 61, 68, 76  one of the parseInt calls throws; nothing catches it.
OptionsThrow(body) ==
  \/ /\ body.viewport.def
     /\ body.viewport.value.width = NoPrimitive \/ body.viewport.value.height = NoPrimitive
  \/ body.deviceScaleFactor.def /\ body.deviceScaleFactor.value = NoPrimitive
  \/ body.waitTime.def /\ body.waitTime.value = NoPrimitive

\* server.js:67-70  opts.deviceScaleFactor, from the text of the body's value
OptScale(dsf) ==
  IF ~dsf.def THEN None(0)
  ELSE LET s == ParseInt(dsf.value)
       IN  IF ~s.nan /\ s.value >= 1 /\ s.value <= 4 THEN Some(s.value) ELSE None(0)

\* server.js:59-65  opts.viewport
OptViewport(vp) ==
  IF ~vp.def THEN None(NoDimensions)
  ELSE LET w == ParseInt(vp.value.width)
           h == ParseInt(vp.value.height)
       IN  IF /\ ~w.nan /\ w.value > 0 /\ w.value <= 3840
              /\ ~h.nan /\ h.value > 0 /\ h.value <= 2160
             THEN Some([width |-> w.value, height |-> h.value])
             ELSE None(NoDimensions)

\* server.js:75-78  opts.waitTime
OptWait(wt) ==
  IF ~wt.def THEN None(0)
  ELSE LET w == ParseInt(wt.value)
       IN  IF ~w.nan /\ w.value >= 0 /\ w.value <= 10000 THEN Some(w.value) ELSE None(0)

\* server.js:57-86  the options that matter for the dimensions, and waitTime
BuildOptions(body) ==
  [ viewport |-> OptViewport(body.viewport),
    deviceScaleFactor |-> OptScale(body.deviceScaleFactor),
    fullPage |-> body.fullPage,
    waitTime |-> OptWait(body.waitTime) ]

\* capture.js:55-64  the defaults of the destructuring
Viewport(opts) ==
  IF opts.viewport.def THEN opts.viewport.value ELSE [width |-> 1440, height |-> 900]

DeviceScaleFactor(opts) ==
  IF opts.deviceScaleFactor.def THEN opts.deviceScaleFactor.value ELSE 2

FullPage(opts) == IF opts.fullPage.def THEN opts.fullPage.value ELSE TRUE

\* capture.js:66  Math.min(4, Math.max(1, deviceScaleFactor))
Dpr(deviceScaleFactor) == Min(4, Max(1, deviceScaleFactor))

\* capture.js:152-158  truncated and captureHeight after the first measurement
Truncated(fullPage, pageHeight) == fullPage /\ pageHeight > MAX_HEIGHT

CaptureHeight(fullPage, viewport, pageHeight) ==
  IF Truncated(fullPage, pageHeight) THEN MAX_HEIGHT
  ELSE IF fullPage THEN pageHeight ELSE viewport.height

\* capture.js:162  the tall-page branch is taken
Tall(fullPage, captureHeight, viewport) == fullPage /\ captureHeight > viewport.height

\* capture.js:194  captureHeight after the second measurement
Remeasured(truncated, finalHeight) ==
  IF truncated THEN Min(finalHeight, MAX_HEIGHT) ELSE finalHeight

\* Mutant of TooLarge: a screenshot of exactly the limit is refused.
TooLargeStrict(length) == length >= MAX_OUTPUT_SIZE

\* capture.js:213  buffer.length > MAX_OUTPUT_SIZE
TooLarge(length) == length > MAX_OUTPUT_SIZE

\* capture.js:216-219 and 225-226
Dimensions(viewport, captureHeight, dpr) ==
  [width |-> viewport.width * dpr, height |-> captureHeight * dpr]

Nothing ==
  [kind |-> "none", code |-> "", bytes |-> 0, dimensions |-> NoDimensions,
   truncated |-> FALSE]

\* capture.js:214-220  the error thrown for a screenshot over the limit
TooLargeError(dimensions) ==
  [kind |-> "error", code |-> "TOO_LARGE", bytes |-> 0, dimensions |-> dimensions,
   truncated |-> FALSE]

\* capture.js:225-228  the result returned
CaptureResult(length, dimensions, truncated) ==
  [kind |-> "result", code |-> "", bytes |-> length, dimensions |-> dimensions,
   truncated |-> truncated]

NoReply == [status |-> 0, bytes |-> 0, dimensions |-> NoDimensions, truncated |-> FALSE]

\* server.js:97-127  the response for what capture() returned or threw
Reply(out) ==
  IF out.kind = "result"
    THEN [status |-> 200, bytes |-> out.bytes, dimensions |-> out.dimensions,
          truncated |-> out.truncated]
  ELSE IF out.code = "TOO_LARGE"
    THEN [status |-> 413, bytes |-> 0, dimensions |-> out.dimensions, truncated |-> FALSE]
  ELSE [status |-> 500, bytes |-> 0, dimensions |-> NoDimensions, truncated |-> FALSE]

\* req.body.deviceScaleFactor: absent, or the text of 0, -1, 1, 3, 4, 5, 10, x,
\* of 3 after a space and after a vertical tab, of 2^31, or an object without a
\* primitive value
ScaleInputs ==
  {None(<< >>)} \cup
    {Some(t) : t \in {<<"0">>, <<"-", "1">>, <<"1">>, <<"3">>, <<"4">>, <<"5">>,
                      <<"1", "0">>, <<"x">>, <<" ", "3">>, <<"", "3">>,
                      <<"2", "1", "4", "7", "4", "8", "3", "6", "4", "8">>,
                      NoPrimitive}}

\* req.body.viewport: absent, 1280 x 720, 1280 x 720 after a no-break space,
\* 5000 x 720, and one whose height is an object without a primitive value
ViewportInputs ==
  { None([width |-> << >>, height |-> << >>]),
    Some([width |-> <<"1", "2", "8", "0">>, height |-> <<"7", "2", "0">>]),
    Some([width |-> <<"1", "2", "8", "0">>, height |-> <<" ", "7", "2", "0">>]),
    Some([width |-> <<"5", "0", "0", "0">>, height |-> <<"7", "2", "0">>]),
    Some([width |-> <<"1", "2", "8", "0">>, height |-> NoPrimitive]) }

\* req.body.waitTime: absent, 500, an object without a primitive value
WaitInputs == {None(<< >>), Some(<<"5", "0", "0">>), Some(NoPrimitive)}

FullPageInputs == {None(FALSE), Some(TRUE), Some(FALSE)}

\* Document heights the renderer reports, around the viewport heights and MAX_HEIGHT.
Heights == {600, 900, MAX_HEIGHT - 1000, MAX_HEIGHT, MAX_HEIGHT + 1, MAX_HEIGHT + 5000}

\* Byte lengths of the screenshot, around MAX_OUTPUT_SIZE.
Lengths == {1, MAX_OUTPUT_SIZE, MAX_OUTPUT_SIZE + 1}

NoBody ==
  [ deviceScaleFactor |-> None(<< >>), fullPage |-> None(FALSE),
    viewport |-> None([width |-> << >>, height |-> << >>]), waitTime |-> None(<< >>) ]

\* A request with the body and the document given, before server.js:56.
NewShot(body, doc) ==
  [ pc |-> "request", body |-> body, doc |-> doc,
    opts |-> BuildOptions(NoBody), dpr |-> 0, truncated |-> FALSE,
    captureHeight |-> 0, remeasured |-> FALSE, out |-> Nothing, res |-> NoReply ]

\* No request is followed through the data path.
NoShot == [pc |-> "none"]

InitShotVars == shot = NoShot

----------------------------------------------------------------------------
(* isBlockedIP on its own: security.js:15-47, against the ranges by their numbers *)

\* Number.prototype.toString: the decimal digits of n >= 0.
RECURSIVE Dec(_)
Dec(n) == IF n < 10 THEN <<Digits[n + 1]>> ELSE Dec(n \div 10) \o <<Digits[(n % 10) + 1]>>

\* The dotted text of an IPv4 address given by its four octets.
FormatV4(o) == Dec(o[1]) \o <<".">> \o Dec(o[2]) \o <<".">> \o Dec(o[3]) \o <<".">> \o Dec(o[4])

\* The eight groups of the IPv4-mapped IPv6 address of an IPv4 address.
MappedGroups(o) == <<0, 0, 0, 0, 0, 65535, o[1] * 256 + o[2], o[3] * 256 + o[4]>>

\* IPv4 addresses on both sides of the boundary of every range.
V4Octets ==
   {<<0, 0, 0, 0>>, <<0, 0, 0, 1>>, <<8, 8, 8, 8>>, <<9, 255, 255, 255>>,
    <<10, 0, 0, 0>>, <<10, 255, 255, 255>>, <<11, 0, 0, 0>>, <<100, 64, 0, 1>>,
    <<126, 255, 255, 255>>, <<127, 0, 0, 0>>, <<127, 0, 0, 1>>, <<127, 255, 255, 255>>,
    <<128, 0, 0, 0>>, <<169, 253, 255, 255>>, <<169, 254, 0, 0>>, <<169, 254, 169, 254>>,
    <<169, 254, 255, 255>>, <<169, 255, 0, 0>>, <<172, 15, 255, 255>>, <<172, 16, 0, 0>>,
    <<172, 31, 255, 255>>, <<172, 32, 0, 0>>, <<192, 167, 255, 255>>, <<192, 168, 0, 0>>,
    <<192, 168, 255, 255>>, <<192, 169, 0, 0>>, <<255, 255, 255, 255>>}

\* IPv6 addresses as texts, with the eight groups each text denotes: the
\* boundaries of fe80::/10 and fc00::/7, loopback and all-zeros in short and in
\* full form, and IPv4-mapped addresses in hexadecimal form.
V6Forms ==
   {
    [text |-> <<":", ":", "1">>,
     num |-> <<0, 0, 0, 0, 0, 0, 0, 1>>],
    [text |-> <<":", ":">>,
     num |-> <<0, 0, 0, 0, 0, 0, 0, 0>>],
    [text |-> <<":", ":", "2">>,
     num |-> <<0, 0, 0, 0, 0, 0, 0, 2>>],
    [text |-> <<"0", ":", "0", ":", "0", ":", "0", ":", "0", ":", "0", ":", "0", ":", "1">>,
     num |-> <<0, 0, 0, 0, 0, 0, 0, 1>>],
    [text |-> <<"f", "e", "8", "0", ":", ":", "1">>,
     num |-> <<65152, 0, 0, 0, 0, 0, 0, 1>>],
    [text |-> <<"F", "E", "8", "0", ":", ":", "1">>,
     num |-> <<65152, 0, 0, 0, 0, 0, 0, 1>>],
    [text |-> <<"f", "e", "7", "f", ":", ":", "1">>,
     num |-> <<65151, 0, 0, 0, 0, 0, 0, 1>>],
    [text |-> <<"f", "e", "9", "0", ":", ":", "1">>,
     num |-> <<65168, 0, 0, 0, 0, 0, 0, 1>>],
    [text |-> <<"f", "e", "b", "f", ":", ":", "1">>,
     num |-> <<65215, 0, 0, 0, 0, 0, 0, 1>>],
    [text |-> <<"f", "e", "c", "0", ":", ":", "1">>,
     num |-> <<65216, 0, 0, 0, 0, 0, 0, 1>>],
    [text |-> <<"f", "c", "0", "0", ":", ":", "1">>,
     num |-> <<64512, 0, 0, 0, 0, 0, 0, 1>>],
    [text |-> <<"f", "c", "f", "f", ":", ":", "1">>,
     num |-> <<64767, 0, 0, 0, 0, 0, 0, 1>>],
    [text |-> <<"f", "d", "0", "0", ":", ":", "1">>,
     num |-> <<64768, 0, 0, 0, 0, 0, 0, 1>>],
    [text |-> <<"f", "d", "f", "f", ":", ":", "1">>,
     num |-> <<65023, 0, 0, 0, 0, 0, 0, 1>>],
    [text |-> <<"f", "b", "f", "f", ":", ":", "1">>,
     num |-> <<64511, 0, 0, 0, 0, 0, 0, 1>>],
    [text |-> <<"f", "e", "0", "0", ":", ":", "1">>,
     num |-> <<65024, 0, 0, 0, 0, 0, 0, 1>>],
    [text |-> <<"f", "c", ":", ":", "1">>,
     num |-> <<252, 0, 0, 0, 0, 0, 0, 1>>],
    [text |-> <<"f", "d", ":", ":", "1">>,
     num |-> <<253, 0, 0, 0, 0, 0, 0, 1>>],
    [text |-> <<"2", "6", "0", "6", ":", ":", "1">>,
     num |-> <<9734, 0, 0, 0, 0, 0, 0, 1>>],
    [text |-> <<":", ":", "f", "f", "f", "f", ":", "7", "f", "0", "0", ":", "1">>,
     num |-> <<0, 0, 0, 0, 0, 65535, 32512, 1>>],
    [text |-> <<":", ":", "f", "f", "f", "f", ":", "a", "0", "0", ":", "1">>,
     num |-> <<0, 0, 0, 0, 0, 65535, 2560, 1>>],
    [text |-> <<":", ":", "f", "f", "f", "f", ":", "8", "0", "8", ":", "8", "0", "8">>,
     num |-> <<0, 0, 0, 0, 0, 65535, 2056, 2056>>],
    [text |-> <<":", ":", "f", "f", "f", "f", ":", "c", "0", "a", "8", ":", "1">>,
     num |-> <<0, 0, 0, 0, 0, 65535, 49320, 1>>],
    [text |-> <<":", ":", "f", "f", "f", "f", ":", "a", "9", "f", "e", ":", "a", "9", "f", "e">>,
     num |-> <<0, 0, 0, 0, 0, 65535, 43518, 43518>>],
    [text |-> <<"0", ":", "0", ":", "0", ":", "0", ":", "0", ":", "f", "f", "f", "f", ":", "7", "f", "0", "0", ":", "1">>,
     num |-> <<0, 0, 0, 0, 0, 65535, 32512, 1>>],
    [text |-> <<":", ":", "F", "F", "F", "F", ":", "1", "2", "7", ".", "0", ".", "0", ".", "1">>,
     num |-> <<0, 0, 0, 0, 0, 65535, 32512, 1>>],
    [text |-> <<":", ":", "f", "f", "f", "f", ":", "0", ":", "0">>,
     num |-> <<0, 0, 0, 0, 0, 65535, 0, 0>>]
   }

\* Reference: the blocked IPv4 set of the specification, on the octets.
BlockedV4Ref(o) ==
  \/ o = <<0, 0, 0, 0>>
  \/ o[1] = 127
  \/ o[1] = 10
  \/ o[1] = 172 /\ o[2] \div 16 = 1
  \/ o[1] = 192 /\ o[2] = 168
  \/ o[1] = 169 /\ o[2] = 254

\* Reference: the blocked IPv6 set of the specification, on the groups.
BlockedV6Ref(g) ==
  \/ g = <<0, 0, 0, 0, 0, 0, 0, 1>>
  \/ g = <<0, 0, 0, 0, 0, 0, 0, 0>>
  \/ g[1] \div 64 = 65152 \div 64
  \/ g[1] \div 512 = 64512 \div 512
  \/ /\ SubSeq(g, 1, 6) = <<0, 0, 0, 0, 0, 65535>>
     /\ BlockedV4Ref(<<g[7] \div 256, g[7] % 256, g[8] \div 256, g[8] % 256>>)

BlockedRef(family, num) == IF family = 4 THEN BlockedV4Ref(num) ELSE BlockedV6Ref(num)

\* The arguments of isBlockedIP: each IPv4 address in dotted form, the same
\* address IPv4-mapped in dotted form, and the IPv6 texts.
ProbeInputs ==
  {[family |-> 4, text |-> FormatV4(o), num |-> o] : o \in V4Octets}
    \cup {[family |-> 6, text |-> <<":", ":", "f", "f", "f", "f", ":">> \o FormatV4(o),
           num |-> MappedGroups(o)] : o \in V4Octets}
    \cup {[family |-> 6, text |-> f.text, num |-> f.num] : f \in V6Forms}

NewProbe(in) ==
  [pc |-> "called", family |-> in.family, text |-> in.text, num |-> in.num,
   blocked |-> FALSE]

NoProbe == [pc |-> "idle", family |-> 4, text |-> << >>, num |-> << >>, blocked |-> FALSE]

InitProbeVars == probe = NoProbe

----------------------------------------------------------------------------
(* One request followed through the handler: server.js:28-131 *)

\* req.body.url: the type of the value and whether it is truthy.
BodyUrls ==
  { [kind |-> "undefined", truthy |-> FALSE], [kind |-> "string", truthy |-> FALSE],
    [kind |-> "string", truthy |-> TRUE], [kind |-> "number", truthy |-> TRUE] }

\* server.js:44  !url || typeof url !== 'string'
UrlMissing(u) == ~u.truthy \/ u.kind # "string"

\* Mutant of Denied: the answer of the rate limiter is ignored.
DeniedNever(r) == FALSE

\* server.js:36  if (!allowed)
Denied(r) == ~r.allowed

\* server.js:120-127  the status of the response to an error thrown by capture
StatusOfError(code) == IF code = "TOO_LARGE" THEN 413 ELSE 500

\* req.body without url: no optional parameter, and a viewport, a
\* deviceScaleFactor and a waitTime for which parseInt throws.
ReqBodies ==
  { NoBody,
    [NoBody EXCEPT !.viewport = Some([width |-> NoPrimitive, height |-> <<"7", "2", "0">>])],
    [NoBody EXCEPT !.deviceScaleFactor = Some(NoPrimitive)],
    [NoBody EXCEPT !.waitTime = Some(NoPrimitive)] }

\* The request before the handler runs.
NewRequest(url, target, body) ==
  [pc |-> "arrived", url |-> url, target |-> target, body |-> body, rate |-> "none",
   valid |-> "none", slot |-> "none", outcome |-> "none", gates |-> << >>,
   responses |-> << >>, others |-> 1]

\* No request is followed through the handler.
NoRequest == [pc |-> "none"]

InitReqVars == req = NoRequest

----------------------------------------------------------------------------
(* Specifications of the semaphore class *)

InitSem ==
  /\ now = 0
  /\ InitRateVars
  /\ InitSemVars
  /\ InitValVars
  /\ InitAppVars
  /\ InitCapVars
  /\ InitLifeVars
  /\ InitShotVars
  /\ InitProbeVars
  /\ InitReqVars

\* A caller that is not suspended in acquire() calls it.
AcquireCall(c, t) ==
  /\ sem.wstate[c] # "waiting"
  /\ now + t <= MaxNow
  /\ sem' = acquire(sem, c, t, now)
  /\ UNCHANGED <<now, rateVars, valVars, appVars, capVars, lifeVars, shotVars, probeVars, reqVars>>

\* Somebody calls release().
ReleaseCall ==
  /\ sem' = release(sem)
  /\ UNCHANGED <<now, rateVars, valVars, appVars, capVars, lifeVars, shotVars, probeVars, reqVars>>

\* security.js:169-173  the runtime runs the callback of a pending timer.
TimerFire(c) ==
  /\ TimerDue(sem, c, now)
  /\ sem' = timeout(sem, c)
  /\ UNCHANGED <<now, rateVars, valVars, appVars, capVars, lifeVars, shotVars, probeVars, reqVars>>

\* A millisecond passes.
Tick ==
  /\ now < MaxNow
  /\ now' = now + 1
  /\ UNCHANGED <<rateVars, semVars, valVars, appVars, capVars, lifeVars, shotVars, probeVars, reqVars>>

NextSem ==
  \/ \E c \in 1..NumWaiters, t \in 1..MaxTimeout : AcquireCall(c, t)
  \/ ReleaseCall
  \/ \E c \in Clients : TimerFire(c)
  \/ Tick

SpecSem == InitSem /\ [][NextSem]_vars

NextSemLive ==
  \/ \E c \in 1..LiveWaiters, t \in 1..MaxTimeout : AcquireCall(c, t)
  \/ ReleaseCall
  \/ \E c \in Clients : TimerFire(c)
  \/ Tick

\* Timers fire: the clock advances, and a timer whose callback may run is not
\* left pending forever. How long after its deadline the callback runs is up to
\* the event loop.
LiveSem ==
  /\ InitSem
  /\ [][NextSemLive]_vars
  /\ WF_vars(Tick)
  /\ \A c \in Clients : WF_vars(TimerFire(c))

----------------------------------------------------------------------------
(* The request handler: server.js:28-131.  Every handler runs from one await
   to the next without interruption, and it yields at every await, also at
   that of a promise already settled. *)

\* server.js:90  semaphore.acquire(10_000)
ACQUIRE_TIMEOUT_MS == 10000

\* Bound of the handler model: the instants after the start of the second rate
\* window at which the clock is observed.
MaxAppTicks == 1

\* The instants at which the handler model observes the clock: the start, the
\* first instant of the next rate window (W), and for an acquire() called at W,
\* at W + ACQUIRE_TIMEOUT_MS and so on, the first instant at which its timer can
\* run and its deadline.
AppTimePoints ==
  {0, RATE_WINDOW_MS + 1}
    \cup {RATE_WINDOW_MS + 1 + ((i + 1) \div 2) * ACQUIRE_TIMEOUT_MS - (i % 2) * TimerSlack :
            i \in 1..MaxAppTicks}

\* req.ip of the requests of the handler model
AppIPs == {"clientA"}

\* What validateUrl is called with: a public site, a site that resolves to a
\* private address, and a string that is no URL.
AppTargets ==
  { [NoInput EXCEPT !.parses = TRUE, !.protocol = "https:", !.hostname = HOST_NAME,
                    !.href = "href",
                    !.v4 = [status |-> "fulfilled", value |-> <<PUBLIC_V4>>]],
    [NoInput EXCEPT !.parses = TRUE, !.protocol = "http:", !.hostname = HOST_NAME,
                    !.href = "href",
                    !.v4 = [status |-> "fulfilled", value |-> <<PUBLIC_V4, PRIVATE_V4>>]],
    NoInput }

\* The requests of the handler model that reach validateUrl: the two sites
\* without optional parameters, and the accepted one also with a waitTime for
\* which parseInt throws.
AppRequests ==
  {[target |-> t, body |-> NoBody] : t \in {u \in AppTargets : u.parses}}
    \cup {[target |-> t, body |-> [NoBody EXCEPT !.waitTime = Some(NoPrimitive)]] :
            t \in {u \in AppTargets : validateUrl(u).ok}}

\* How capture(opts) ends for the handler.
CaptureOutcomes == {"result", "TOO_LARGE", "error"}

Response(status, retryAfter) == [status |-> status, retryAfter |-> retryAfter]

\* The handler holds a slot: acquire() was granted and release() not yet called.
Holding(c) ==
  \/ pc[c] = "capturing"
  \/ pc[c] = "acquiring" /\ sem.wstate[c] = "granted"

\* The promise of an acquire() is settled and the handler that awaits it has not
\* resumed: its resumption is in the promise queue, and no timer or I/O callback
\* runs before that queue is empty.
HandlerDraining == \E d \in Clients : sem.wstate[d] \in {"granted", "rejected"}

\* Handlers at the same point of the code differ in nothing but their number:
\* of these, the one with the least number takes the next step.
First(c, at) == pc[c] = at /\ \A d \in Clients : pc[d] = at => c <= d

\* server.js:28-54  a request arrives: rate limit, url check, call of validateUrl.
\* Express calls the handler from the callback of the socket, an I/O callback.
\* A client stops sending once a request of the window was refused.
Arrive(c, ip, hasUrl) ==
  /\ ~HandlerDraining
  /\ First(c, "idle")
  /\ (ip \in DOMAIN requestCounts /\ ~WindowExpired(now, requestCounts[ip]))
        => ~OverLimit(requestCounts[ip].count)
  /\ LET r == checkRateLimit(requestCounts, ip, now)
     IN  /\ requestCounts' = r.counts
         /\ IF ~r.allowed
              THEN resp' = Response(429, r.retryAfter) /\ pc' = pc
            ELSE IF ~hasUrl
              THEN resp' = Response(400, 0) /\ pc' = pc
            ELSE resp' = resp /\ pc' = [pc EXCEPT ![c] = "validating"]
  /\ UNCHANGED <<now, rl, win, allowedLog, shadow, semVars, valVars, capVars, lifeVars, shotVars,
                 probeVars, reqVars>>

\* server.js:51-90  validateUrl settles; on success the options are built,
\* semaphore.acquire is called and its promise is awaited: the handler yields
\* there also when the slot is granted at the call. When a parseInt of the option
\* block throws, the handler ends there: it sends no response and does not call
\* acquire.
Validated(c, inp, body) ==
  /\ First(c, "validating")
  /\ IF ~validateUrl(inp).ok
       THEN /\ resp' = Response(400, 0)
            /\ pc' = [pc EXCEPT ![c] = "idle"]
            /\ sem' = sem
     ELSE IF OptionsThrow(body)
       THEN /\ resp' = resp
            /\ pc' = [pc EXCEPT ![c] = "idle"]
            /\ sem' = sem
       ELSE /\ sem' = acquire(sem, c, ACQUIRE_TIMEOUT_MS, now)
            /\ pc' = [pc EXCEPT ![c] = "acquiring"]
            /\ resp' = resp
  /\ UNCHANGED <<now, rateVars, valVars, capVars, lifeVars, shotVars, probeVars, reqVars>>

\* Handlers suspended at server.js:90 whose promises are in the same state
\* differ in nothing but their number: of these, the one with the least number
\* takes the next step.
FirstAcquiring(c) ==
  /\ pc[c] = "acquiring"
  /\ \A d \in Clients :
       ( /\ pc[d] = "acquiring"
         /\ sem.wstate[d] = sem.wstate[c] /\ sem.deadline[d] = sem.deadline[c]
         /\ sem.grants[d] = sem.grants[c] /\ sem.rejects[d] = sem.rejects[c] ) => c <= d

\* server.js:90-97  acquire() was granted, at the call or from the queue: the
\* handler resumes and calls capture.
Resumed(c) ==
  /\ FirstAcquiring(c)
  /\ sem.wstate[c] = "granted"
  /\ pc' = [pc EXCEPT ![c] = "capturing"]
  /\ sem' = Dropped(sem, c)
  /\ UNCHANGED <<now, rateVars, valVars, resp, capVars, lifeVars, shotVars, probeVars, reqVars>>

\* server.js:91-93  the queued acquire() was rejected: 503.
Busy(c) ==
  /\ pc[c] = "acquiring"
  /\ sem.wstate[c] = "rejected"
  /\ resp' = Response(503, 0)
  /\ pc' = [pc EXCEPT ![c] = "idle"]
  /\ sem' = Dropped(sem, c)
  /\ UNCHANGED <<now, rateVars, valVars, capVars, lifeVars, shotVars, probeVars, reqVars>>

\* server.js:97-130  capture settles: the response is sent and, in the finally
\* block, the slot is released.
Captured(c, outcome) ==
  /\ First(c, "capturing")
  /\ resp' = Response(CASE outcome = "result" -> 200
                        [] outcome = "TOO_LARGE" -> 413
                        [] OTHER -> 500, 0)
  /\ sem' = release(sem)
  /\ pc' = [pc EXCEPT ![c] = "idle"]
  /\ UNCHANGED <<now, rateVars, valVars, capVars, lifeVars, shotVars, probeVars, reqVars>>

\* security.js:169-173  the runtime runs the callback of a queued handler's timer.
QueueTimeout(c) ==
  /\ ~HandlerDraining
  /\ TimerDue(sem, c, now)
  /\ sem' = timeout(sem, c)
  /\ UNCHANGED <<now, rateVars, valVars, appVars, capVars, lifeVars, shotVars, probeVars, reqVars>>

\* Time passes, also while the promise queue is drained.
AppTick ==
  /\ \E t \in AppTimePoints :
       /\ t > now
       /\ \A u \in AppTimePoints : u > now => t <= u
       /\ now' = t
  /\ UNCHANGED <<rateVars, semVars, valVars, appVars, capVars, lifeVars, shotVars, probeVars, reqVars>>

\* The value of a variable of a component a specification does not follow.
NotFollowed == [pc |-> "none"]

InitApp ==
  /\ now = 0
  /\ requestCounts = << >>
  /\ rl = NotFollowed /\ win = NotFollowed /\ allowedLog = NotFollowed
  /\ shadow = NotFollowed
  /\ InitSemVars
  /\ valIn = NotFollowed /\ valOut = NotFollowed /\ valPc = "none"
  /\ InitAppVars
  /\ cap = NotFollowed
  /\ life = NotFollowed /\ job = NotFollowed
  /\ InitShotVars
  /\ probe = NotFollowed
  /\ InitReqVars

NextApp ==
  \/ \E c \in Clients, ip \in AppIPs, hasUrl \in BOOLEAN : Arrive(c, ip, hasUrl)
  \/ \E c \in Clients, r \in AppRequests : Validated(c, r.target, r.body)
  \/ \E c \in Clients : Resumed(c)
  \/ \E c \in Clients : Busy(c)
  \/ \E c \in Clients, o \in CaptureOutcomes : Captured(c, o)
  \/ \E c \in Clients : QueueTimeout(c)
  \/ AppTick

SpecApp == InitApp /\ [][NextApp]_vars

----------------------------------------------------------------------------
(* Specification of one request: the handler of server.js:28-131 run for the
   request of handler Me, with the semaphore and the rate limiter in any state
   other requests leave them in, another request that queues (Other) and other
   handlers that release their slots. *)

Me == 1
Other == 2

\* Slots held by handlers other than Me and Other.
HeldByOthers ==
  sem.current - (IF req.pc = "capturing" \/ sem.wstate[Me] = "granted" THEN 1 ELSE 0)
              - (IF sem.wstate[Other] = "granted" THEN 1 ELSE 0)

Sent(r, status, retryAfter) ==
  [r EXCEPT !.responses = Append(@, Response(status, retryAfter)), !.pc = "done"]

\* server.js:28-51  the request arrives: rate limit, url check, validateUrl called.
ReqArrive ==
  /\ ~HandlerDraining
  /\ req.pc = "arrived"
  /\ LET r == checkRateLimit(requestCounts, "clientA", now)
         q == [req EXCEPT !.gates = Append(@, "rate")]
     IN  /\ requestCounts' = r.counts
         /\ req' = IF Denied(r)
                     THEN Sent([q EXCEPT !.rate = "denied"], 429, r.retryAfter)
                   ELSE IF UrlMissing(req.url)
                     THEN Sent([q EXCEPT !.rate = IF r.allowed THEN "allowed" ELSE "denied"],
                               400, 0)
                   ELSE [q EXCEPT !.rate = IF r.allowed THEN "allowed" ELSE "denied",
                                  !.gates = Append(@, "validate"),
                                  !.pc = "validating"]
  /\ UNCHANGED <<now, rl, win, allowedLog, shadow, semVars, valVars, appVars, capVars, lifeVars,
                 shotVars, probeVars>>

\* server.js:51-90  validateUrl settles; on success the options are built,
\* semaphore.acquire is called and its promise is awaited: the handler yields
\* there also when the slot is granted at the call. When a parseInt of the option
\* block throws, the handler ends there: its promise rejects, it sends no
\* response and calls neither acquire nor capture.
ReqValidated ==
  /\ req.pc = "validating"
  /\ IF ~validateUrl(req.target).ok
       THEN /\ req' = Sent([req EXCEPT !.valid = "failed"], 400, 0)
            /\ sem' = sem
     ELSE IF OptionsThrow(req.body)
       THEN /\ req' = [req EXCEPT !.valid = "ok", !.pc = "aborted"]
            /\ sem' = sem
       ELSE /\ sem' = acquire(sem, Me, ACQUIRE_TIMEOUT_MS, now)
            /\ req' = [req EXCEPT !.valid = "ok", !.gates = Append(@, "acquire"),
                                  !.pc = "acquiring"]
  /\ UNCHANGED <<now, rateVars, valVars, appVars, capVars, lifeVars, shotVars, probeVars>>

\* server.js:90-97  acquire() was granted, at the call or from the queue: the
\* handler resumes and calls capture.
ReqResumed ==
  /\ req.pc = "acquiring"
  /\ sem.wstate[Me] = "granted"
  /\ sem' = Dropped(sem, Me)
  /\ req' = [req EXCEPT !.slot = "granted", !.gates = Append(@, "capture"),
                        !.pc = "capturing"]
  /\ UNCHANGED <<now, rateVars, valVars, appVars, capVars, lifeVars, shotVars, probeVars>>

\* server.js:91-93  the queued acquire() was rejected: 503.
ReqBusy ==
  /\ req.pc = "acquiring"
  /\ sem.wstate[Me] = "rejected"
  /\ sem' = Dropped(sem, Me)
  /\ req' = Sent([req EXCEPT !.slot = "timeout"], 503, 0)
  /\ UNCHANGED <<now, rateVars, valVars, appVars, capVars, lifeVars, shotVars, probeVars>>

\* server.js:97-130  capture settles: the response is sent and, in the finally
\* block, the slot is released.
ReqCaptured(outcome) ==
  /\ req.pc = "capturing"
  /\ sem' = release(sem)
  /\ req' = Sent([req EXCEPT !.outcome = outcome, !.gates = Append(@, "release")],
                 IF outcome = "result" THEN 200 ELSE StatusOfError(outcome), 0)
  /\ UNCHANGED <<now, rateVars, valVars, appVars, capVars, lifeVars, shotVars, probeVars>>

\* server.js:90  another request calls semaphore.acquire and awaits its promise.
OtherArrive ==
  /\ req.others > 0
  /\ req.pc # "none"
  /\ sem.wstate[Other] = "idle"
  /\ sem' = acquire(sem, Other, ACQUIRE_TIMEOUT_MS, now)
  /\ req' = [req EXCEPT !.others = @ - 1]
  /\ UNCHANGED <<now, rateVars, valVars, appVars, capVars, lifeVars, shotVars, probeVars>>

\* server.js:90-97  the acquire() of the other request settled, at the call or
\* later: its handler resumes.
OtherSettled ==
  /\ sem.wstate[Other] \in {"granted", "rejected"}
  /\ sem' = Dropped(sem, Other)
  /\ UNCHANGED <<now, rateVars, valVars, appVars, capVars, lifeVars, shotVars, probeVars,
                 reqVars>>

\* server.js:129  a handler other than Me releases the slot it holds.
OtherRelease ==
  /\ HeldByOthers > 0
  /\ sem' = release(sem)
  /\ UNCHANGED <<now, rateVars, valVars, appVars, capVars, lifeVars, shotVars, probeVars,
                 reqVars>>

\* The rate-limit entries of the client when the request arrives.
ReqCounts ==
  {<< >>} \cup {MapSet(<< >>, "clientA", [count |-> n, resetAt |-> RATE_WINDOW_MS]) :
                 n \in {RATE_LIMIT - 1, RATE_LIMIT}}

InitReq ==
  /\ now = 0
  /\ requestCounts \in ReqCounts
  /\ rl = NoCall
  /\ win = [ip \in IPs |-> NoWin]
  /\ allowedLog = [ip \in IPs |-> << >>]
  /\ shadow = NoShadow
  /\ sem \in {[NewSemaphore EXCEPT !.current = k] : k \in {0, max - 1, max}}
  /\ InitValVars
  /\ InitAppVars
  /\ InitCapVars
  /\ InitLifeVars
  /\ InitShotVars
  /\ InitProbeVars
  /\ req \in {NewRequest(u, t, b) : u \in BodyUrls, t \in AppTargets, b \in ReqBodies}

NextReq ==
  \/ ReqArrive
  \/ ReqValidated
  \/ ReqResumed
  \/ ReqBusy
  \/ \E o \in CaptureOutcomes : ReqCaptured(o)
  \/ OtherArrive
  \/ OtherSettled
  \/ OtherRelease
  \/ \E c \in {Me, Other} : QueueTimeout(c)
  \/ AppTick

SpecReq == InitReq /\ [][NextReq]_vars

----------------------------------------------------------------------------
(* Specifications of the rate limiter *)

InitRate ==
  /\ now = 0
  /\ InitRateVars
  /\ InitSemVars
  /\ InitValVars
  /\ InitAppVars
  /\ InitCapVars
  /\ InitLifeVars
  /\ InitShotVars
  /\ InitProbeVars
  /\ InitReqVars

\* A request from ip reaches checkRateLimit at the current time; with logging,
\* the times of the client's allowed calls are recorded as well.
RateCall(ip, logging) ==
  /\ (ip \in DOMAIN requestCounts /\ ~WindowExpired(now, requestCounts[ip]))
        => requestCounts[ip].count < MaxCount
  /\ LET r == checkRateLimit(requestCounts, ip, now)
         w == RefWindow(win[ip], now)
     IN  /\ requestCounts' = r.counts
         /\ shadow' = [shadow EXCEPT !.counts = checkRateLimit(@, ip, now).counts]
         /\ win' = [win EXCEPT ![ip] = w]
         /\ allowedLog' = [allowedLog EXCEPT ![ip] =
                             IF logging /\ r.allowed THEN LogAllowed(@, now) ELSE @]
         /\ rl' = [ip |-> ip, at |-> now,
                   had |-> ip \in DOMAIN requestCounts,
                   pre |-> IF ip \in DOMAIN requestCounts
                             THEN requestCounts[ip] ELSE FreshEntry(-1),
                   post |-> r.counts[ip],
                   allowed |-> r.allowed, retryAfter |-> r.retryAfter,
                   widx |-> w.idx, wstart |-> w.start,
                   t5 |-> IF Len(allowedLog[ip]) = RATE_LIMIT
                            THEN allowedLog[ip][1] ELSE -1]
  /\ UNCHANGED <<now, semVars, valVars, appVars, capVars, lifeVars, shotVars, probeVars, reqVars>>

\* The setInterval callback runs.
Sweep ==
  /\ requestCounts' = Cleanup(requestCounts, now)
  /\ requestCounts' # requestCounts
  /\ shadow' = [shadow EXCEPT !.swept = @ \cup (DOMAIN requestCounts \ DOMAIN requestCounts')]
  /\ UNCHANGED <<now, rl, win, allowedLog, semVars, valVars, appVars, capVars, lifeVars,
                 shotVars, probeVars, reqVars>>

\* Time passes.
Advance ==
  /\ \E t \in TimePoints : t > now /\ now' = t
  /\ UNCHANGED <<rateVars, semVars, valVars, appVars, capVars, lifeVars, shotVars, probeVars, reqVars>>

NextRate ==
  \/ \E ip \in IPs : RateCall(ip, FALSE)
  \/ Sweep
  \/ Advance

SpecRate == InitRate /\ [][NextRate]_vars

\* One client, with the times of its allowed calls recorded.
NextRateLog ==
  \/ RateCall("clientA", TRUE)
  \/ Sweep
  \/ Advance

SpecRateLog == InitRate /\ [][NextRateLog]_vars

----------------------------------------------------------------------------
(* Specification of the target validator *)

InitVal ==
  /\ now = 0
  /\ InitRateVars
  /\ InitSemVars
  /\ valIn \in {[NoInput EXCEPT !.parses = u.parses, !.protocol = u.protocol,
                                !.hostname = u.hostname, !.href = u.href] :
                  u \in ParsedUrls}
  /\ valOut = NotRun
  /\ valPc = "parse"
  /\ InitAppVars
  /\ InitCapVars
  /\ InitLifeVars
  /\ InitShotVars
  /\ InitProbeVars
  /\ InitReqVars

\* security.js:53-64  validateUrl up to the resolver calls: the input is parsed and
\* its scheme checked; a failure is thrown at once.
ParseUrl ==
  /\ valPc = "parse"
  /\ IF EarlyError(valIn) = ""
       THEN valPc' = "dns" /\ valOut' = valOut
       ELSE valPc' = "done" /\ valOut' = validateUrl(valIn)
  /\ UNCHANGED <<now, rateVars, semVars, valIn, appVars, capVars, lifeVars, shotVars, probeVars, reqVars>>

\* security.js:70-101  Promise.allSettled settles with the three resolver results
\* and validateUrl runs to its end.
Resolve ==
  /\ valPc = "dns"
  /\ \E i \in ValInputs :
       /\ [i EXCEPT !.v4 = NoInput.v4, !.v6 = NoInput.v6, !.lookup = NoInput.lookup]
            = valIn
       /\ valIn' = i
       /\ valOut' = validateUrl(i)
  /\ valPc' = "done"
  /\ UNCHANGED <<now, rateVars, semVars, appVars, capVars, lifeVars, shotVars, probeVars, reqVars>>

NextVal == ParseUrl \/ Resolve

SpecVal == InitVal /\ [][NextVal]_vars

----------------------------------------------------------------------------
(* capture(): navigation and its redirect hook, capture.js:83-98 and 208-210 *)

\* Bound of the capture model: redirect hops of one navigation.
MaxHops == 2

\* Where a redirect can lead: the targets of the handler model and the
\* metadata address http://169.254.169.254/.
RedirectTargets ==
  AppTargets \cup
    { [NoInput EXCEPT !.parses = TRUE, !.protocol = "http:", !.hostname = HOST_V4,
                      !.href = "href"] }

\* capture.js:87-88  const safe = await validateRedirect(targetUrl); if (!safe)
Unsafe(target) == ~validateRedirect(target)

\* capture.js:95  page.goto(url, ...) is called: the navigation request is sent.
Goto ==
  /\ cap.pc = "start"
  /\ cap' = [cap EXCEPT !.pc = "goto", !.request = "inflight"]
  /\ UNCHANGED <<now, rateVars, semVars, valVars, appVars, lifeVars, shotVars, probeVars, reqVars>>

\* capture.js:84-87  the renderer sends a navigation request that follows a
\* redirect and emits 'request': the listener starts, calls validateRedirect and
\* is suspended at its await. The listener stays registered as long as the page
\* is open: the request is a hop of the navigation of page.goto while that one
\* is in flight, or of a later navigation of the page.
Redirect(target) ==
  /\ cap.page = "open"
  /\ cap.pc # "start"
  /\ cap.pc = "goto" => cap.request = "inflight"
  /\ Len(cap.chain) < MaxHops
  /\ cap' = [cap EXCEPT !.chain = Append(@, [target |-> target,
                                             goto |-> cap.pc = "goto",
                                             checked |-> FALSE])]
  /\ UNCHANGED <<now, rateVars, semVars, valVars, appVars, lifeVars, shotVars, probeVars, reqVars>>

\* capture.js:87-90  validateRedirect settles in the listener of hop i; for an
\* unsafe target the listener calls request.abort inside try/catch. The call
\* stops the navigation of page.goto only if it takes effect (aborts) while the
\* request of that hop is still in flight; otherwise it changes nothing or
\* throws, and the catch swallows it.
CheckDone(i, aborts) ==
  /\ i \in 1..Len(cap.chain)
  /\ ~cap.chain[i].checked
  /\ cap' = [cap EXCEPT
               !.chain[i].checked = TRUE,
               !.request = IF /\ Unsafe(cap.chain[i].target)
                              /\ aborts
                              /\ i = Len(cap.chain)
                              /\ cap.chain[i].goto
                              /\ cap.page = "open"
                              /\ cap.request = "inflight"
                            THEN "aborted" ELSE @]
  /\ UNCHANGED <<now, rateVars, semVars, valVars, appVars, lifeVars, shotVars, probeVars, reqVars>>

\* capture.js:95-98  the response of the last hop arrived and the network is
\* idle: page.goto resolves.
NavComplete ==
  /\ cap.pc = "goto"
  /\ cap.request = "inflight"
  /\ cap' = [cap EXCEPT !.pc = "loaded", !.request = "finished"]
  /\ UNCHANGED <<now, rateVars, semVars, valVars, appVars, lifeVars, shotVars, probeVars, reqVars>>

\* capture.js:95-98  page.goto throws: the request was aborted, the navigation
\* failed or CAPTURE_TIMEOUT passed.
NavFail ==
  /\ cap.pc = "goto"
  /\ cap' = [cap EXCEPT !.pc = "failed", !.error = "error"]
  /\ UNCHANGED <<now, rateVars, semVars, valVars, appVars, lifeVars, shotVars, probeVars, reqVars>>

Waited(c, name, ok) == [c EXCEPT !.waits = Append(@, [wait |-> name, ok |-> ok])]

\* capture.js:100-103  the wait for document.fonts.ready ends, in time or by its
\* 5 s timeout; the rejection is caught.
FontsWait(ok) ==
  /\ cap.pc = "loaded"
  /\ cap' = [Waited(cap, "fonts", ok) EXCEPT !.pc = "fonts"]
  /\ UNCHANGED <<now, rateVars, semVars, valVars, appVars, lifeVars, shotVars, probeVars, reqVars>>

\* Mutant of SelectorTimedOut: the flag is set whenever the selector did not appear.
SelectorTimedOutUnasked(waitForSelector, appeared) == ~appeared

\* capture.js:106-113  selectorTimedOut after the optional wait
SelectorTimedOut(waitForSelector, appeared) == waitForSelector # "" /\ ~appeared

\* capture.js:105-113  if a selector was requested, page.waitForSelector ends, in
\* time or by its 10 s timeout; the rejection is caught.
SelectorWait(appeared) ==
  /\ cap.pc = "fonts"
  /\ cap' = [(IF cap.waitForSelector # "" THEN Waited(cap, "selector", appeared) ELSE cap)
               EXCEPT !.pc = "selector",
                      !.selectorTimedOut = SelectorTimedOut(cap.waitForSelector, appeared)]
  /\ UNCHANGED <<now, rateVars, semVars, valVars, appVars, lifeVars, shotVars, probeVars, reqVars>>

\* capture.js:115-146  scrolling, custom CSS and the extra wait ran; the wait for
\* incomplete images ends, by their load events or by its 5 s timer; a rejection
\* is caught.
ImagesWait(ok) ==
  /\ cap.pc = "selector"
  /\ cap' = [Waited(cap, "images", ok) EXCEPT !.pc = "settled"]
  /\ UNCHANGED <<now, rateVars, semVars, valVars, appVars, lifeVars, shotVars, probeVars, reqVars>>

\* capture.js:115-136 and 148-210  a step that is awaited without a catch
\* rejects (a page.evaluate, addStyleTag, waitForTimeout or page.screenshot, when
\* the page crashed or navigated away): capture() throws it.
StepFail ==
  /\ cap.pc \in {"selector", "settled"}
  /\ cap' = [cap EXCEPT !.pc = "failed", !.error = "error"]
  /\ UNCHANGED <<now, rateVars, semVars, valVars, appVars, lifeVars, shotVars, probeVars, reqVars>>

\* capture.js:148-228  the page was measured and page.screenshot returned a
\* buffer of `length` bytes: over the limit capture() throws TOO_LARGE, otherwise
\* it returns the result with selectorTimedOut.
Screenshot(length) ==
  /\ cap.pc = "settled"
  /\ cap' = IF TooLarge(length)
              THEN [cap EXCEPT !.pc = "failed", !.error = "TOO_LARGE"]
              ELSE [cap EXCEPT !.pc = "shot"]
  /\ UNCHANGED <<now, rateVars, semVars, valVars, appVars, lifeVars, shotVars, probeVars, reqVars>>

\* capture.js:229-232  finally: the page is closed, and its listeners with it.
PageClose ==
  /\ cap.pc \in {"shot", "failed"}
  /\ cap.page = "open"
  /\ cap' = [cap EXCEPT !.page = "closed"]
  /\ UNCHANGED <<now, rateVars, semVars, valVars, appVars, lifeVars, shotVars, probeVars, reqVars>>

\* opts.waitForSelector: none, or a selector.
Selectors == {"", "#main"}

InitCap ==
  /\ now = 0
  /\ InitRateVars
  /\ InitSemVars
  /\ InitValVars
  /\ InitAppVars
  /\ cap \in {[NewCapture EXCEPT !.waitForSelector = w] : w \in Selectors}
  /\ InitLifeVars
  /\ InitShotVars
  /\ InitProbeVars
  /\ InitReqVars

NextCap ==
  \/ Goto
  \/ \E target \in RedirectTargets : Redirect(target)
  \/ \E i \in 1..MaxHops, aborts \in BOOLEAN : CheckDone(i, aborts)
  \/ NavComplete
  \/ NavFail
  \/ \E ok \in BOOLEAN : FontsWait(ok)
  \/ \E appeared \in BOOLEAN : SelectorWait(appeared)
  \/ \E ok \in BOOLEAN : ImagesWait(ok)
  \/ StepFail
  \/ \E length \in Lengths : Screenshot(length)
  \/ PageClose

SpecCap == InitCap /\ [][NextCap]_vars

----------------------------------------------------------------------------
(* Specification of the renderer lifecycle and of concurrent capture() calls *)

\* Calls of capture() at the same point with the same data differ in nothing but
\* their number: of these, the one with the least number takes the next step.
FirstJob(j) == \A k \in Jobs : job[k] = job[j] => j <= k

\* The instants at which the lifecycle model observes the clock: the last one
\* at which the instance launched at 0 is not older than RESTART_TIME, and the
\* first one at which it is.
LifeTimePoints == {RESTART_TIME, RESTART_TIME + 1}

\* capture.js:67, 30-38, 14-18  capture() calls getBrowser(). Without a restart
\* it returns the singleton and b.newContext() is called; with one,
\* launchBrowser() calls browser.close() on the old instance, or
\* chromium.launch() at once when there is none.
Obtain(j) ==
  /\ job[j].pc = "idle"
  /\ FirstJob(j)
  /\ IF needsRestart(life, now)
       THEN IF life.browser # 0
              THEN /\ life' = [life EXCEPT !.inst[life.browser] =
                                             IF @ = "live" THEN "closed" ELSE @]
                   /\ job' = [job EXCEPT ![j].pc = "closing",
                                         ![j].closed = IF IsConnected(life)
                                                         THEN life.browser ELSE 0]
              ELSE /\ life' = life
                   /\ job' = [job EXCEPT ![j].pc = "launching"]
       ELSE /\ life' = life
            /\ job' = [job EXCEPT ![j].pc = "newContext", ![j].b = life.browser]
  /\ UNCHANGED <<now, rateVars, semVars, valVars, appVars, capVars, shotVars, probeVars, reqVars>>

\* capture.js:16-18  browser.close() settled (a failure is ignored):
\* chromium.launch() is called.
CloseDone(j) ==
  /\ job[j].pc = "closing"
  /\ FirstJob(j)
  /\ job' = [job EXCEPT ![j].pc = "launching"]
  /\ UNCHANGED <<now, rateVars, semVars, valVars, appVars, capVars, life, shotVars, probeVars, reqVars>>

\* capture.js:18-27  chromium.launch() resolved and launchBrowser() resumes: the
\* singleton, the count and the launch time are set. getBrowser() and capture()
\* resume in later jobs of the promise queue, so that the launchBrowser() of
\* another call may resume in between.
LaunchDone(j) ==
  /\ job[j].pc = "launching"
  /\ FirstJob(j)
  /\ NextInstance(life) # 0
  /\ life' = Launched(life, NextInstance(life), now)
  /\ job' = [job EXCEPT ![j].pc = "launched"]
  /\ UNCHANGED <<now, rateVars, semVars, valVars, appVars, capVars, shotVars, probeVars, reqVars>>

\* capture.js:36-37, 67-68  launchBrowser() has returned: getBrowser() resumes
\* and returns the module variable browser as it is by then, which is the
\* instance of the launch that resolved last, and b.newContext() is called.
BrowserReturned(j) ==
  /\ job[j].pc = "launched"
  /\ FirstJob(j)
  /\ job' = [job EXCEPT ![j].pc = "newContext", ![j].b = life.browser]
  /\ UNCHANGED <<now, rateVars, semVars, valVars, appVars, capVars, life, shotVars, probeVars, reqVars>>

\* capture.js:18, 36, 67  chromium.launch() rejected: capture() throws.
LaunchFail(j) ==
  /\ job[j].pc = "launching"
  /\ FirstJob(j)
  /\ job' = [job EXCEPT ![j].pc = "done", ![j].result = "error"]
  /\ UNCHANGED <<now, rateVars, semVars, valVars, appVars, capVars, life, shotVars, probeVars, reqVars>>

\* capture.js:68-75  b.newContext() resolved: context.newPage() is called.
ContextOpened(j) ==
  /\ job[j].pc = "newContext"
  /\ FirstJob(j)
  /\ life.inst[job[j].b] = "live"
  /\ job' = [job EXCEPT ![j].pc = "newPage", ![j].ctx = "open"]
  /\ UNCHANGED <<now, rateVars, semVars, valVars, appVars, capVars, life, shotVars, probeVars, reqVars>>

\* capture.js:68  b.newContext() rejected: capture() throws.
ContextFail(j) ==
  /\ job[j].pc = "newContext"
  /\ FirstJob(j)
  /\ job' = [job EXCEPT ![j].pc = "done", ![j].result = "error"]
  /\ UNCHANGED <<now, rateVars, semVars, valVars, appVars, capVars, life, shotVars, probeVars, reqVars>>

\* capture.js:75-77  context.newPage() resolved: the try block is entered.
PageOpened(j) ==
  /\ job[j].pc = "newPage"
  /\ FirstJob(j)
  /\ life.inst[job[j].b] = "live"
  /\ job' = [job EXCEPT ![j].pc = "body", ![j].page = "open"]
  /\ UNCHANGED <<now, rateVars, semVars, valVars, appVars, capVars, life, shotVars, probeVars, reqVars>>

\* capture.js:75  context.newPage() rejected, outside the try block: capture()
\* throws.
PageFail(j) ==
  /\ job[j].pc = "newPage"
  /\ FirstJob(j)
  /\ job' = [job EXCEPT ![j].pc = "done", ![j].result = "error"]
  /\ UNCHANGED <<now, rateVars, semVars, valVars, appVars, capVars, life, shotVars, probeVars, reqVars>>

\* capture.js:79-228  every step of the try block succeeded, the screenshot is
\* within the size limit: screenshotCount++ and the result is returned through
\* the finally block.
BodyOk(j) ==
  /\ job[j].pc = "body"
  /\ FirstJob(j)
  /\ life.inst[job[j].b] = "live"
  /\ life' = Counted(life, job[j].b)
  /\ job' = [job EXCEPT ![j].pc = "finally", ![j].result = "ok"]
  /\ UNCHANGED <<now, rateVars, semVars, valVars, appVars, capVars, shotVars, probeVars, reqVars>>

\* capture.js:79-221  a step of the try block threw (navigation, renderer,
\* TOO_LARGE): the error passes through the finally block.
BodyFail(j) ==
  /\ job[j].pc = "body"
  /\ FirstJob(j)
  /\ job' = [job EXCEPT ![j].pc = "finally", ![j].result = "error"]
  /\ UNCHANGED <<now, rateVars, semVars, valVars, appVars, capVars, life, shotVars, probeVars, reqVars>>

\* capture.js:229-230  the finally block awaits page.close(): resolved, the page
\* is closed; rejected, the failure is ignored and the page stays as it is.
\* context.close() is called next.
FinallyPage(j, closes) ==
  /\ job[j].pc = "finally"
  /\ FirstJob(j)
  /\ job' = [job EXCEPT ![j].pc = "closeContext",
                        ![j].page = IF closes THEN "closed" ELSE @]
  /\ UNCHANGED <<now, rateVars, semVars, valVars, appVars, capVars, life, shotVars, probeVars, reqVars>>

\* capture.js:231-232  context.close() settled, in the same way: capture()
\* returns or throws what the try block left.
FinallyContext(j, closes) ==
  /\ job[j].pc = "closeContext"
  /\ FirstJob(j)
  /\ job' = [job EXCEPT ![j].pc = "done",
                        ![j].ctx = IF closes THEN "closed" ELSE @]
  /\ UNCHANGED <<now, rateVars, semVars, valVars, appVars, capVars, life, shotVars, probeVars, reqVars>>

\* A call of capture() is between the resumption of its launchBrowser() and
\* that of its getBrowser(): the promise queue is being drained, and no timer or
\* I/O callback runs before it is empty.
Draining == \E j \in Jobs : job[j].pc = "launched"

\* The renderer process of the singleton dies: isConnected() turns false when the
\* disconnect is delivered, which is an I/O callback.
Crash ==
  /\ ~Draining
  /\ life.browser # 0
  /\ life.inst[life.browser] = "live"
  /\ life' = [life EXCEPT !.inst[life.browser] = "closed"]
  /\ UNCHANGED <<now, rateVars, semVars, valVars, appVars, capVars, job, shotVars, probeVars, reqVars>>

\* Time passes, also while the promise queue is drained.
LifeTick ==
  /\ \E t \in LifeTimePoints :
       /\ t > now
       /\ \A u \in LifeTimePoints : u > now => t <= u
       /\ now' = t
  /\ UNCHANGED <<rateVars, semVars, valVars, appVars, capVars, lifeVars, shotVars, probeVars, reqVars>>

InitLife ==
  /\ now = RESTART_TIME
  /\ requestCounts = NotFollowed /\ rl = NotFollowed /\ win = NotFollowed
  /\ allowedLog = NotFollowed /\ shadow = NotFollowed
  /\ sem = NotFollowed
  /\ valIn = NotFollowed /\ valOut = NotFollowed /\ valPc = "none"
  /\ pc = NotFollowed /\ resp = NotFollowed
  /\ cap = NotFollowed
  /\ life = StartedLife(RESTART_INTERVAL - 1)
  /\ job = [j \in Jobs |-> NoJob]
  /\ InitShotVars
  /\ probe = NotFollowed
  /\ InitReqVars

NextLife ==
  \/ \E j \in Jobs : Obtain(j)
  \/ \E j \in Jobs : CloseDone(j)
  \/ \E j \in Jobs : LaunchDone(j)
  \/ \E j \in Jobs : BrowserReturned(j)
  \/ \E j \in Jobs : LaunchFail(j)
  \/ \E j \in Jobs : ContextOpened(j)
  \/ \E j \in Jobs : ContextFail(j)
  \/ \E j \in Jobs : PageOpened(j)
  \/ \E j \in Jobs : PageFail(j)
  \/ \E j \in Jobs : BodyOk(j)
  \/ \E j \in Jobs : BodyFail(j)
  \/ \E j \in Jobs, closes \in BOOLEAN : FinallyPage(j, closes)
  \/ \E j \in Jobs, closes \in BOOLEAN : FinallyContext(j, closes)
  \/ Crash
  \/ LifeTick

SpecLife == InitLife /\ [][NextLife]_vars

----------------------------------------------------------------------------
(* Specification of the data path of one capture *)

\* server.js:56-97  the options are built and capture(opts) is called.
BuildOpts ==
  /\ shot.pc = "request"
  /\ shot' = IF OptionsThrow(shot.body)
               THEN [shot EXCEPT !.pc = "aborted"]
               ELSE [shot EXCEPT !.pc = "capture", !.opts = BuildOptions(shot.body)]
  /\ UNCHANGED <<now, rateVars, semVars, valVars, appVars, capVars, lifeVars, probeVars, reqVars>>

\* capture.js:55-158  the scale is clamped, the page is loaded and settled, its
\* height is measured.
Measure ==
  /\ shot.pc = "capture"
  /\ shot' = [shot EXCEPT
       !.pc = "measured",
       !.dpr = Dpr(DeviceScaleFactor(shot.opts)),
       !.truncated = Truncated(FullPage(shot.opts), shot.doc.pageHeight),
       !.captureHeight =
          CaptureHeight(FullPage(shot.opts), Viewport(shot.opts), shot.doc.pageHeight)]
  /\ UNCHANGED <<now, rateVars, semVars, valVars, appVars, capVars, lifeVars, probeVars, reqVars>>

\* capture.js:160-207  for a tall full-page capture the layout is stabilized and
\* the height measured again.
Stabilize ==
  /\ shot.pc = "measured"
  /\ IF Tall(FullPage(shot.opts), shot.captureHeight, Viewport(shot.opts))
       THEN shot' = [shot EXCEPT
              !.pc = "ready",
              !.remeasured = TRUE,
              !.captureHeight = Remeasured(shot.truncated, shot.doc.finalHeight)]
       ELSE shot' = [shot EXCEPT !.pc = "ready"]
  /\ UNCHANGED <<now, rateVars, semVars, valVars, appVars, capVars, lifeVars, probeVars, reqVars>>

\* capture.js:208-228  the screenshot is taken and its size checked.
SizeCheck ==
  /\ shot.pc = "ready"
  /\ LET d == Dimensions(Viewport(shot.opts), shot.captureHeight, shot.dpr)
     IN  IF TooLarge(shot.doc.length)
           THEN shot' = [shot EXCEPT !.pc = "threw", !.out = TooLargeError(d)]
           ELSE shot' = [shot EXCEPT
                  !.pc = "returned",
                  !.out = CaptureResult(shot.doc.length, d, shot.truncated)]
  /\ UNCHANGED <<now, rateVars, semVars, valVars, appVars, capVars, lifeVars, probeVars, reqVars>>

\* server.js:97-127  the handler answers.
Respond ==
  /\ shot.pc \in {"returned", "threw"}
  /\ shot' = [shot EXCEPT !.pc = "responded", !.res = Reply(shot.out)]
  /\ UNCHANGED <<now, rateVars, semVars, valVars, appVars, capVars, lifeVars, probeVars, reqVars>>

InitShot ==
  /\ now = 0
  /\ InitRateVars
  /\ InitSemVars
  /\ InitValVars
  /\ InitAppVars
  /\ InitCapVars
  /\ InitLifeVars
  /\ \E s \in ScaleInputs, f \in FullPageInputs, v \in ViewportInputs, w \in WaitInputs,
        h1 \in Heights, h2 \in Heights, n \in Lengths :
       shot = NewShot([deviceScaleFactor |-> s, fullPage |-> f, viewport |-> v,
                       waitTime |-> w],
                      [pageHeight |-> h1, finalHeight |-> h2, length |-> n])
  /\ InitProbeVars
  /\ InitReqVars

NextShot == BuildOpts \/ Measure \/ Stabilize \/ SizeCheck \/ Respond

SpecShot == InitShot /\ [][NextShot]_vars

----------------------------------------------------------------------------
(* Specification of isBlockedIP *)

InitProbe ==
  /\ now = 0
  /\ InitRateVars
  /\ InitSemVars
  /\ InitValVars
  /\ InitAppVars
  /\ InitCapVars
  /\ InitLifeVars
  /\ InitShotVars
  /\ probe \in {NewProbe(in) : in \in ProbeInputs}
  /\ InitReqVars

\* security.js:45-47  isBlockedIP(ip) returns
Classify ==
  /\ probe.pc = "called"
  /\ probe' = [probe EXCEPT !.pc = "returned", !.blocked = isBlockedIP(probe.text)]
  /\ UNCHANGED <<now, rateVars, semVars, valVars, appVars, capVars, lifeVars, shotVars, reqVars>>

NextProbe == Classify

SpecProbe == InitProbe /\ [][NextProbe]_vars

----------------------------------------------------------------------------
(* Claims about the rate limiter *)

\* C5 (as stated): a sixth call that falls within 60 seconds of five earlier
\* allowed calls of the same client is denied.
C5_SixthWithin60sDenied ==
  (rl.t5 # -1 /\ rl.at - rl.t5 < RATE_WINDOW_MS) => ~rl.allowed

\* C5 (amended): a sixth call that falls into the same fixed window as five
\* earlier allowed calls of the same client is denied.
C5_SixthInSameWindowDenied ==
  (rl.t5 # -1 /\ rl.t5 >= rl.wstart) => ~rl.allowed

C5_Witness ==
  /\ rl.t5 # -1 /\ rl.t5 >= rl.wstart
  /\ rl.at > rl.t5
  /\ ~rl.allowed

\* C6: within one window exactly the first RATE_LIMIT calls are allowed and every
\* later call is denied; the call that creates the window leaves count = 1 and
\* expiry = now + 60 s, and the expiry stays at window start + 60 s.
C6_FirstFivePerWindow ==
  rl.ip # "none" =>
    /\ rl.allowed <=> rl.widx <= RATE_LIMIT
    /\ rl.widx = 1 => rl.post = [count |-> 1, resetAt |-> rl.at + RATE_WINDOW_MS]
    /\ rl.post = [count |-> rl.widx, resetAt |-> rl.wstart + RATE_WINDOW_MS]

C6_Witness ==
  /\ rl.widx = RATE_LIMIT + 1
  /\ ~rl.allowed
  /\ rl.at > rl.wstart

\* C27: a sweep removes exactly the entries whose window has expired (now >
\* expiry), and sweeps are not observable: every call of checkRateLimit returns
\* the allowed and retryAfter that the same calls return when no sweep ever runs.
C27_SweepTransparent ==
  [][ /\ rl' # rl =>
          LET r == checkRateLimit(shadow.counts, rl'.ip, now)
          IN  rl'.allowed = r.allowed /\ rl'.retryAfter = r.retryAfter
      /\ (rl' = rl /\ requestCounts' # requestCounts) =>
          /\ DOMAIN requestCounts' \subseteq DOMAIN requestCounts
          /\ \A ip \in DOMAIN requestCounts :
                /\ ip \notin DOMAIN requestCounts' <=> now > requestCounts[ip].resetAt
                /\ ip \in DOMAIN requestCounts' => requestCounts'[ip] = requestCounts[ip]
    ]_vars

\* A client whose entry a sweep had removed called again, and the other client's
\* expired entry is still in the map of the run without sweeps only.
C27_Witness ==
  /\ rl.ip \in shadow.swept
  /\ ~rl.had
  /\ rl.ip \in DOMAIN requestCounts /\ requestCounts[rl.ip] = rl.post
  /\ DOMAIN shadow.counts # DOMAIN requestCounts

\* C30: checkRateLimit(ip) reads and writes the entry of ip only: the entries of
\* the other clients are unchanged and do not influence the result; a denied
\* call increments the caller's count and leaves the expiry of its window where
\* it was, so that calls made while denied do not postpone the next allowed call.
C30_OnlyOwnEntry ==
  [][ rl' # rl =>
        LET ip   == rl'.ip
            own  == [x \in (DOMAIN requestCounts) \cap {ip} |-> requestCounts[x]]
            r    == checkRateLimit(own, ip, now)
        IN  /\ DOMAIN requestCounts' = DOMAIN requestCounts \cup {ip}
            /\ \A other \in DOMAIN requestCounts \ {ip} :
                  requestCounts'[other] = requestCounts[other]
            /\ rl'.allowed = r.allowed /\ rl'.retryAfter = r.retryAfter
            /\ ~rl'.allowed =>
                  /\ ip \in DOMAIN requestCounts
                  /\ requestCounts'[ip] = [requestCounts[ip] EXCEPT !.count = @ + 1]
    ]_vars

\* The client was denied a second time in its window while the other client has
\* an entry of its own with a later expiry.
C30_Witness ==
  /\ rl.ip = "clientA" /\ ~rl.allowed
  /\ rl.pre.count > RATE_LIMIT
  /\ rl.at > rl.post.resetAt - RATE_WINDOW_MS
  /\ "clientB" \in DOMAIN requestCounts
  /\ requestCounts["clientB"].resetAt > rl.post.resetAt

\* C7 (as stated): every denial carries retryAfter = ceil((expiry - now)/1000),
\* and that value is between 1 and 60, also at the expiry instant itself.
C7_RetryAfterBetween1And60 ==
  (rl.ip # "none" /\ ~rl.allowed) =>
    /\ rl.retryAfter = Ceil(rl.post.resetAt - rl.at, MS_PER_SECOND)
    /\ rl.retryAfter >= 1
    /\ rl.retryAfter <= RATE_WINDOW_MS \div MS_PER_SECOND

\* C8: a call made after the client's window expiry is allowed whatever the old
\* count was, and starts a window with count = 1 and expiry = call time + 60 s;
\* the entry is still the old one, so no sweep or timer did the reset.
C8_LazyReset ==
  (rl.had /\ rl.at > rl.pre.resetAt) =>
    /\ rl.allowed
    /\ rl.retryAfter = 0
    /\ rl.post = [count |-> 1, resetAt |-> rl.at + RATE_WINDOW_MS]

C8_Witness ==
  /\ rl.had /\ rl.at > rl.pre.resetAt
  /\ rl.pre.count > RATE_LIMIT
  /\ rl.allowed

----------------------------------------------------------------------------
(* Claims about the request handler *)

\* C1: under every interleaving of concurrent requests, the number of requests
\* between a granted semaphore.acquire() and their semaphore.release() (running
\* capture()) never exceeds the semaphore's max of 5.
C1_AtMostMaxCaptures == Cardinality({c \in Clients : Holding(c)}) <= max

C1_Witness ==
  /\ Cardinality({c \in Clients : pc[c] = "capturing"}) = max
  /\ \E c \in Clients : pc[c] = "acquiring" /\ sem.wstate[c] = "waiting"
  /\ resp.status = 200

\* C29: slot conservation. Every granted acquire() is followed by exactly one
\* release(), on every exit of the capture, and a request answered with 429, 400
\* or 503 calls no release(): current always equals the number of requests that
\* hold a slot, and is 0 again when no request is in flight.
C29_SlotConservation ==
  /\ sem.current = Cardinality({c \in Clients : Holding(c)})
  /\ (\A c \in Clients : pc[c] = "idle") => (sem.current = 0 /\ Len(sem.queue) = 0)

\* All requests are done, the last one answered with 503 after the others
\* released their slots.
C29_Witness ==
  /\ \A c \in Clients : pc[c] = "idle"
  /\ resp.status = 503
  /\ sem.current = 0

----------------------------------------------------------------------------
(* Claims about the target validator *)

\* The union of the addresses the three resolvers answered with.
Resolved(inp) ==
  {Fulfilled(inp.v4)[i] : i \in 1..Len(Fulfilled(inp.v4))}
    \cup {Fulfilled(inp.v6)[i] : i \in 1..Len(Fulfilled(inp.v6))}
    \cup {Fulfilled(inp.lookup)[i].address : i \in 1..Len(Fulfilled(inp.lookup))}

\* The hostname was resolved: the URL parsed and its scheme is http or https.
Resolves(inp) == inp.parses /\ inp.protocol \in {"http:", "https:"}

\* The addresses the resolvers answer with, each with its family and its value:
\* the four octets, or the eight groups.
PoolAddresses ==
  { [text |-> PUBLIC_V4, family |-> 4, num |-> <<8, 8, 8, 8>>],
    [text |-> PRIVATE_V4, family |-> 4, num |-> <<172, 20, 0, 1>>],
    [text |-> PUBLIC_V6, family |-> 6, num |-> <<9734, 0, 0, 0, 0, 0, 0, 1>>],
    [text |-> PRIVATE_V6, family |-> 6, num |-> <<64768, 0, 0, 0, 0, 0, 0, 1>>],
    [text |-> MAPPED_V6, family |-> 6, num |-> <<0, 0, 0, 0, 0, 65535, 2560, 1>>],
    [text |-> LINKLOCAL_V6, family |-> 6, num |-> <<65168, 0, 0, 0, 0, 0, 0, 1>>] }

\* The address lies in the blocked set of the specification.
BlockedAddress(addr) ==
  \E a \in PoolAddresses : a.text = addr /\ BlockedRef(a.family, a.num)

\* C3: when the union of the addresses resolved for the hostname holds a blocked
\* address, validateUrl fails with the private-network error and returns no
\* ValidatedTarget, however many other addresses there are and in whatever
\* order.
C3_AnyBlockedAddressVetoes ==
  (valOut # NotRun /\ Resolves(valIn) /\ \E a \in Resolved(valIn) : BlockedAddress(a))
    => (~valOut.ok /\ valOut.error = ERR_PRIVATE)

\* Reference (net.isIP): the hostname is an IP literal, a bracketed IPv6 address or
\* a dotted sequence of decimal digits.
IsIpLiteral(h) ==
  LET bare == StripBrackets(h)
  IN  \/ Includes(bare, ":")
      \/ Len(bare) > 0 /\ \A i \in 1..Len(bare) : IsDigit(bare[i]) \/ bare[i] = "."

\* C21: when every resolver fails or answers with no address and the hostname is
\* not an IP literal, validateUrl fails and returns no ValidatedTarget; only an IP
\* literal is validated without a resolved address.
C21_UnresolvedNameRejected ==
  (valPc = "done" /\ Resolves(valIn) /\ Resolved(valIn) = {}
     /\ ~IsIpLiteral(valIn.hostname))
    => ~valOut.ok

----------------------------------------------------------------------------
(* Claims about the semaphore *)

\* C2: in every reachable state of the semaphore, after any sequence of
\* acquire(), release() and timer expiries, 0 <= current <= max.
C2_CurrentWithinBounds == 0 <= sem.current /\ sem.current <= max

C2_Witness ==
  /\ sem.current = max
  /\ Len(sem.queue) > 0
  /\ \E c \in Clients : sem.wstate[c] = "rejected"

\* C9: every queued acquire() settles exactly once, by a grant or by a
\* 'Queue timeout' rejection, never both and never twice; a rejected waiter is out
\* of the queue, a granted waiter has no pending timer.
C9_SettlesExactlyOnce ==
  \A c \in Clients :
    /\ sem.grants[c] + sem.rejects[c] <= 1
    /\ sem.wstate[c] = "waiting" <=> InQueue(sem.queue, c)
    /\ Cardinality({i \in 1..Len(sem.queue) : sem.queue[i] = c}) <= 1
    /\ sem.wstate[c] = "waiting" => (sem.timer[c] /\ sem.grants[c] = 0 /\ sem.rejects[c] = 0)
    /\ sem.wstate[c] = "rejected" => (sem.rejects[c] = 1 /\ sem.grants[c] = 0 /\ ~sem.timer[c])
    /\ sem.wstate[c] = "granted" => (sem.grants[c] = 1 /\ sem.rejects[c] = 0 /\ ~sem.timer[c])

C9_Witness ==
  \E c, d \in Clients :
    /\ sem.wstate[c] = "rejected"
    /\ sem.wstate[d] = "granted" /\ sem.deadline[d] # -1

\* C10 (as stated): a waiter never waits past its own deadline, and one that no
\* release() hands a slot before its deadline fails with 'Queue timeout' at that
\* deadline.
C10_RejectedAtDeadline ==
  /\ [](\A c \in Clients : sem.wstate[c] = "waiting" => now <= sem.deadline[c])
  /\ [][\A c \in Clients :
          (sem.wstate[c] = "waiting" /\ sem'.wstate[c] = "rejected") => now = sem.deadline[c]]_vars

\* C10 (amended): with timers that fire, every enqueued acquire() is eventually
\* settled, whatever the other callers do; a waiter is rejected by its own timer
\* only, not earlier than that timer can run (TimerSlack ms before the deadline
\* read from Date.now()) and possibly after the deadline, and until the callback
\* runs a release() can still grant it.
C10_NoWaiterWaitsForever ==
  /\ \A c \in Clients : (sem.wstate[c] = "waiting") ~> (sem.wstate[c] # "waiting")
  /\ [][\A c \in Clients :
          (sem.wstate[c] = "waiting" /\ sem'.wstate[c] = "rejected")
            => /\ sem.timer[c] /\ ~sem'.timer[c]
               /\ now >= sem.deadline[c] - TimerSlack
               /\ sem'.current = sem.current]_vars
  /\ [][\A c \in Clients :
          (sem.wstate[c] = "waiting" /\ now > sem.deadline[c] /\ sem' = release(sem)
             /\ Head(sem.queue) = c)
            => sem'.wstate[c] = "granted"]_vars

\* A waiter was rejected after its deadline had passed, with every slot taken.
C10_Witness ==
  \E c \in Clients :
    /\ sem.wstate[c] = "rejected"
    /\ now > sem.deadline[c]
    /\ sem.current = max

\* c stands before d in the queue q.
Before(q, c, d) ==
  \E i, j \in 1..Len(q) : i < j /\ q[i] = c /\ q[j] = d

\* The callers whose pending acquire() is granted by the step.
GrantedByStep ==
  {c \in Clients : sem.wstate[c] = "waiting" /\ sem'.wstate[c] = "granted"}

\* C11: the handoff is FIFO. The queue keeps the order of enqueueing (an entry
\* that stands before another one was there first, entries never overtake each
\* other), and a waiter granted by release() is the head of the queue: no
\* earlier-enqueued waiter is still waiting behind it.
C11_HandoffIsFifo ==
  [][ \/ sem' = sem
      \/ /\ \A i, j \in 1..Len(sem'.queue) :
               (i < j) =>
                 /\ InQueue(sem.queue, sem'.queue[i])
                 /\ (InQueue(sem.queue, sem'.queue[j]) =>
                       Before(sem.queue, sem'.queue[i], sem'.queue[j]))
         /\ \A c \in GrantedByStep :
               /\ c = Head(sem.queue)
               /\ \A k \in 1..Len(sem'.queue) : Before(sem.queue, c, sem'.queue[k])
    ]_vars

C11_Witness ==
  \E c, d \in Clients :
    /\ sem.wstate[c] = "granted" /\ sem.deadline[c] # -1
    /\ sem.wstate[d] = "waiting"
    /\ sem.deadline[d] > sem.deadline[c]

\* C12: release() with a non-empty queue leaves current unchanged and grants
\* exactly one waiter; release() with an empty queue decrements current by one,
\* not below 0, and grants nobody; an immediate acquire() (current < max) adds
\* exactly one to current and leaves the queue unchanged. Steps that grant a
\* waiter or change current are of these kinds only.
C12_ReleaseAndAcquireEffects ==
  [][ \/ sem' = sem
      \/ /\ (sem' = release(sem) /\ Len(sem.queue) > 0) =>
               /\ sem'.current = sem.current
               /\ Cardinality(GrantedByStep) = 1
               /\ Len(sem'.queue) = Len(sem.queue) - 1
         /\ (sem' = release(sem) /\ Len(sem.queue) = 0) =>
               /\ sem'.current = sem.current - 1
               /\ sem'.current >= 0
               /\ GrantedByStep = {}
               /\ sem'.wstate = sem.wstate
               /\ sem'.queue = sem.queue
         /\ sem.current < max =>
               \A c \in Clients :
                 (sem.wstate[c] # "waiting" /\ sem' = acquire(sem, c, 1, now)) =>
                   /\ sem'.current = sem.current + 1
                   /\ sem'.queue = sem.queue
                   /\ sem'.wstate[c] = "granted"
         /\ GrantedByStep # {} => sem'.current = sem.current
         /\ sem'.current < sem.current =>
               (Len(sem.queue) = 0 /\ sem'.current = sem.current - 1
                  /\ GrantedByStep = {})
         /\ sem'.current > sem.current =>
               (sem.current < max /\ sem'.current = sem.current + 1
                  /\ sem'.queue = sem.queue)
    ]_vars

C12_Witness ==
  /\ sem.current = max - 1
  /\ Len(sem.queue) = 0
  /\ \E c \in Clients : sem.wstate[c] = "granted" /\ sem.deadline[c] # -1

\* C28: no barging. Whenever the queue is not empty current equals max, so that
\* an acquire() arriving while others are queued, also between a handoff and the
\* resumption of the woken waiter, is queued behind them and takes no slot.
C28_NoBarging ==
  Len(sem.queue) > 0 =>
    /\ sem.current = max
    /\ \A c \in Clients :
         sem.wstate[c] # "waiting" =>
           LET a == acquire(sem, c, 1, now)
           IN  /\ a.queue = Append(sem.queue, c)
               /\ a.current = sem.current
               /\ a.wstate[c] = "waiting"

\* A handoff has woken a waiter that has not resumed yet, a later waiter was
\* rejected by its timer, and a third one is still queued.
C28_Witness ==
  /\ Len(sem.queue) > 0
  /\ \E c, d \in Clients :
       /\ sem.wstate[c] = "granted" /\ sem.deadline[c] # -1
       /\ sem.wstate[d] = "rejected"

----------------------------------------------------------------------------
(* Claims about the redirect hook of capture() *)

\* C4: page.goto never finishes successfully, and no screenshot is taken, on a
\* page reached through a redirect hop that validateRedirect rejects.
C4_RejectedHopNeverLoads ==
  cap.request = "finished" =>
    \A i \in 1..Len(cap.chain) :
      cap.chain[i].goto => ~Unsafe(cap.chain[i].target)

\* The soft wait `name` was made and ended by its timeout.
TimedOut(name) == \E i \in 1..Len(cap.waits) : cap.waits[i] = [wait |-> name, ok |-> FALSE]

\* C24: a timeout of the font wait, the selector wait or the image wait never
\* makes capture() fail, the capture goes on with its next step; and
\* selectorTimedOut is true exactly when a selector was requested and its wait
\* did not succeed.
C24_SoftTimeoutsAbsorbed ==
  /\ [][cap'.waits # cap.waits =>
          /\ cap'.pc \in {"fonts", "selector", "settled"}
          /\ cap'.error = ""]_vars
  /\ [](cap.pc \in {"selector", "settled", "shot"} =>
          (cap.selectorTimedOut <=> (cap.waitForSelector # "" /\ TimedOut("selector"))))
  /\ [](cap.waitForSelector = "" => ~TimedOut("selector"))
  /\ [](cap.error # "" <=> cap.pc = "failed")

\* All three waits timed out and the screenshot was taken.
C24_Witness ==
  /\ cap.pc = "shot"
  /\ cap.error = ""
  /\ TimedOut("fonts") /\ TimedOut("selector") /\ TimedOut("images")
  /\ cap.selectorTimedOut

----------------------------------------------------------------------------
(* Claims about the renderer lifecycle and the teardown of capture() *)

\* The call j of capture() has left a context or a page open in a live renderer.
LeftOpen(j) ==
  /\ job[j].ctx = "open" \/ job[j].page = "open"
  /\ life.inst[job[j].b] = "live"

\* C13: every browsing context and page that capture() opens is closed when
\* capture() has returned or thrown, on every exit path.
C13_ClosedOnEveryExit == \A j \in Jobs : job[j].pc = "done" => ~LeftOpen(j)

\* C14: getBrowser() restarts the renderer if and only if there is no instance,
\* the instance is disconnected, screenshotCount >= 100 or the instance is older
\* than one hour; a restarting call launches a new instance before it returns,
\* the launch sets screenshotCount to 0 and launchTime to now, and getBrowser()
\* returns the instance the singleton references at its return.
C14_RestartPolicy ==
  [][ \A j \in Jobs :
        /\ (job[j].pc = "idle" /\ job'[j].pc # "idle") =>
             /\ job'[j].pc \in {"closing", "launching"} <=>
                  \/ life.browser = 0
                  \/ life.inst[life.browser] # "live"
                  \/ life.screenshotCount >= 100
                  \/ now - life.launchTime > 60 * 60 * 1000
             /\ job'[j].pc \in {"closing", "launching", "newContext"}
        /\ (job[j].pc = "launching" /\ job'[j].pc \notin {"launching", "done"}) =>
             /\ job'[j].pc = "launched"
             /\ life.inst[life'.browser] = "unborn"
             /\ life'.inst[life'.browser] = "live"
             /\ life'.screenshotCount = 0
             /\ life'.launchTime = now
        /\ (job[j].pc # "newContext" /\ job'[j].pc = "newContext") =>
             /\ job[j].pc \in {"idle", "launched"}
             /\ life' = life
             /\ job'[j].b = life.browser
             /\ life.inst[job'[j].b] # "unborn"
    ]_vars

\* The hundredth capture succeeded on the first instance, which is not older
\* than an hour, and a call of capture() got the instance launched after it.
C14_Witness ==
  /\ now - 0 <= 60 * 60 * 1000
  /\ life.succeeded[1] = 100
  /\ life.browser = 2
  /\ life.screenshotCount = 0
  /\ \E j \in Jobs : job[j].b = 2

\* C15: concurrent calls that each observe that a restart is needed share one
\* teardown-and-launch: no two of them are restarting the renderer at once.
C15_RestartCoalesced ==
  Cardinality({j \in Jobs : job[j].pc \in {"closing", "launching"}}) <= 1

\* C16: at every instant the only live renderer instance, if any, is the one the
\* singleton references.
C16_OneLiveInstance ==
  \A i \in Instances : life.inst[i] = "live" => life.browser = i

\* C17: between two launches screenshotCount equals the number of captures that
\* succeeded on the current instance.
C17_CountsCurrentInstance ==
  (life.browser # 0 /\ life.inst[life.browser] = "live") =>
     life.screenshotCount = life.succeeded[life.browser]

\* The call j of capture() has failed.
Failed(j) == job[j].pc = "done" /\ job[j].result = "error"

\* The call k of capture() is in progress on the instance getBrowser() gave it.
InProgress(k) == job[k].pc \in {"newContext", "newPage", "body"}

\* C26: a capture that fails changes no state shared with other requests: it
\* leaves the renderer singleton and every other request's context untouched, so
\* that no capture in progress runs on an instance the failed capture closed.
C26_FailedCaptureSparesOthers ==
  \A j, k \in Jobs :
    (Failed(j) /\ k # j /\ InProgress(k)) => job[k].b # job[j].closed

\* C31: a restart made by getBrowser() never tears down a renderer instance on
\* which the capture of another request is in progress: a capture that has
\* obtained an instance keeps it live until it finishes, also when another call
\* sees the count or the age threshold meanwhile.
C31_RestartSparesCapturesInProgress ==
  \A j, k \in Jobs :
    (k # j /\ InProgress(k) /\ job[j].closed # 0) =>
      (job[k].b # job[j].closed /\ life.inst[job[k].b] = "live")

----------------------------------------------------------------------------
(* Claims about the data path of a capture *)

\* C18: for every successful full-page capture, whatever the heights at the
\* first and at the second measurement, the returned height is at most
\* 15000 x scale factor, and truncated is true when the document is higher than
\* 15000 px.
C18_HeightCapped ==
  (shot.pc \in {"returned", "responded"} /\ FullPage(shot.opts)) =>
    /\ shot.out.dimensions.height <= 15000 * shot.dpr
    /\ shot.doc.pageHeight > 15000 => shot.out.truncated
    /\ (shot.remeasured /\ shot.doc.finalHeight > 15000) => shot.out.truncated

\* The deviceScaleFactor of the request body, as a number (0 when it is none).
RequestedScale ==
  IF shot.body.deviceScaleFactor.def /\ ~ParseInt(shot.body.deviceScaleFactor.value).nan
    THEN ParseInt(shot.body.deviceScaleFactor.value).value
    ELSE 0

HasRequestedScale ==
  shot.body.deviceScaleFactor.def /\ ~ParseInt(shot.body.deviceScaleFactor.value).nan

\* C19: a request with deviceScaleFactor above 4 is captured with scale factor 4,
\* one with deviceScaleFactor 0 or negative with scale factor 1, and the scale
\* factor of every capture is in 1..4.
C19_ScaleClamped ==
  shot.pc \notin {"request", "capture", "aborted"} =>
    /\ shot.dpr \in 1..4
    /\ (HasRequestedScale /\ RequestedScale > 4) => shot.dpr = 4
    /\ (HasRequestedScale /\ RequestedScale <= 0) => shot.dpr = 1

\* C20: a screenshot of more than 50 MB makes capture() throw TOO_LARGE with the
\* dimensions viewport.width x scale and captureHeight x scale and without image
\* bytes, and the handler answers 413 with these dimensions; a screenshot of at
\* most 50 MB never fails with TOO_LARGE.
C20_TooLargeOnlyOver50MB ==
  LET over == shot.doc.length > 50 * 1024 * 1024
      dims == [width |-> Viewport(shot.opts).width * shot.dpr,
               height |-> shot.captureHeight * shot.dpr]
  IN  /\ shot.pc \in {"returned", "threw", "responded"} =>
           /\ over <=> (shot.out.kind = "error" /\ shot.out.code = "TOO_LARGE")
           /\ over => (shot.out.bytes = 0 /\ shot.out.dimensions = dims)
           /\ ~over => (shot.out.kind = "result" /\ shot.out.bytes = shot.doc.length)
      /\ shot.pc = "responded" =>
           /\ over <=> shot.res.status = 413
           /\ over => (shot.res.bytes = 0 /\ shot.res.dimensions = dims)

C20_Witness ==
  /\ shot.pc = "responded"
  /\ shot.res.status = 413
  /\ shot.doc.length = MAX_OUTPUT_SIZE + 1
  /\ shot.res.dimensions = [width |-> 1280 * 4, height |-> MAX_HEIGHT * 4]

----------------------------------------------------------------------------
(* Claims about isBlockedIP *)

\* C22: isBlockedIP blocks an address exactly when it lies in 127.0.0.0/8, ::1,
\* the all-zeros address, 10/8, 172.16/12, 192.168/16, 169.254.0.0/16, fe80::/10,
\* fc00::/7, or is an IPv4-mapped IPv6 address, in dotted or hexadecimal form,
\* whose embedded IPv4 address is blocked.
C22_BlockedExactlyTheSet ==
  probe.pc = "returned" => (probe.blocked <=> BlockedRef(probe.family, probe.num))

----------------------------------------------------------------------------
(* Claims about one request in the handler *)

\* The gates in the order of the specification.
GateOrder == <<"rate", "validate", "acquire", "capture", "release">>

IsPrefix(a, b) == Len(a) <= Len(b) /\ SubSeq(b, 1, Len(a)) = a

Passed(gate) == \E i \in 1..Len(req.gates) : req.gates[i] = gate

\* C23: a request passes the gates in the order rate limiter, URL validation,
\* semaphore acquire, capture, semaphore release, each at most once; capture is
\* called only for a request the rate limiter allowed, whose url validateUrl
\* accepted and which was granted a slot; a request rejected at a gate reaches no
\* later gate.
C23_GatesInOrder ==
  /\ IsPrefix(req.gates, GateOrder)
  /\ Passed("capture") =>
       /\ req.rate = "allowed"
       /\ ~UrlMissing(req.url) /\ validateUrl(req.target).ok /\ req.valid = "ok"
       /\ req.slot = "granted"
  /\ req.rate = "denied" => (req.pc = "done" /\ req.gates = <<"rate">>)
  /\ (req.rate # "none" /\ UrlMissing(req.url)) => (req.pc = "done" /\ req.gates = <<"rate">>)
  /\ req.valid = "failed" => (req.pc = "done" /\ req.gates = <<"rate", "validate">>)
  /\ req.slot = "timeout" =>
       (req.pc = "done" /\ req.gates = <<"rate", "validate", "acquire">>)

\* A request that waited in the queue went through all five gates.
C23_Witness ==
  /\ req.pc = "done"
  /\ req.gates = GateOrder
  /\ now > 0
  /\ requestCounts["clientA"].count = 1

\* C25: every request receives exactly one response, and its status is that of
\* the first gate that fails: 429 iff the rate limiter denied it, 400 iff url is
\* missing or no string or validateUrl failed, 503 iff the acquire timed out, 413
\* iff capture failed with TOO_LARGE, 500 iff capture failed otherwise, and the
\* PNG (200) iff capture returned. A handler that has ended, with a response or
\* by an exception of the option block, has sent exactly one response.
C25_OneResponseByFirstFailure ==
  /\ Len(req.responses) = IF req.pc \in {"done", "aborted"} THEN 1 ELSE 0
  /\ req.pc = "done" =>
       LET st == req.responses[1].status
       IN  /\ st \in {200, 400, 413, 429, 500, 503}
           /\ (st = 429) <=> (req.rate = "denied")
           /\ (st = 400) <=> /\ req.rate = "allowed"
                             /\ UrlMissing(req.url) \/ ~validateUrl(req.target).ok
           /\ (st = 503) <=> (req.slot = "timeout")
           /\ (st = 413) <=> (req.outcome = "TOO_LARGE")
           /\ (st = 500) <=> (req.outcome = "error")
           /\ (st = 200) <=> (req.outcome = "result")

============================================================================
